---- MODULE Spec2Model ----
(***************************************************************************)
(* Model of the floorplan pipeline: heading detection (identify-room.js),  *)
(* room-name normalisation, page grouping and the group worker pool of     *)
(* pdfGenerate (PDFGenerate.js).                                           *)
(*                                                                         *)
(* Text is a sequence of one-character strings.  Page indices are 0-based  *)
(* as in the source; roomDetections and groups are TLA+ sequences, so the  *)
(* element the source calls x[i] is x[i + 1] here.                         *)
(***************************************************************************)
EXTENDS Integers, Sequences, FiniteSets, TLC

\* ------------------------------------------------------------------ bounds
MaxPages == 3
MaxConcurrency == 2
\* the longest string normalizeRoomName is called on
MaxNameLen == 3

\* ------------------------------------------------------------------- text
\* JavaScript null.  A one-element tuple that no text equals, since every
\* element of a text is a single character.
Null == <<"null">>

UpperChars == {"K", "I", "T", "B", "E", "D"}
LowerChars == {"k", "i", "t", "b", "e", "d"}
DigitChars == {"1"}
Whitespace == {" "}
Punctuation == {"-"}
Chars == UpperChars \cup LowerChars \cup DigitChars \cup Whitespace \cup Punctuation

\* !x for a value that is a string or null
Falsy(x) == x = Null \/ x = <<>>

\* a || b
OrElse(a, b) == IF Falsy(a) THEN b ELSE a

toLowerChar(c) ==
  CASE c = "K" -> "k" [] c = "I" -> "i" [] c = "T" -> "t"
    [] c = "B" -> "b" [] c = "E" -> "e" [] c = "D" -> "d"
    [] OTHER -> c

toUpperChar(c) ==
  CASE c = "k" -> "K" [] c = "i" -> "I" [] c = "t" -> "T"
    [] c = "b" -> "B" [] c = "e" -> "E" [] c = "d" -> "D"
    [] OTHER -> c

toLowerCase(s) == [i \in 1..Len(s) |-> toLowerChar(s[i])]
toUpperCase(s) == [i \in 1..Len(s) |-> toUpperChar(s[i])]

RECURSIVE DropWhile(_, _)
DropWhile(s, cls) ==
  IF s # <<>> /\ Head(s) \in cls THEN DropWhile(Tail(s), cls) ELSE s

\* s.replace(/[cls]+/g, rep): every maximal run of characters of cls becomes rep
RECURSIVE ReplaceRuns(_, _, _)
ReplaceRuns(s, cls, rep) ==
  IF s = <<>> THEN <<>>
  ELSE IF Head(s) \in cls
       THEN rep \o ReplaceRuns(DropWhile(Tail(s), cls), cls, rep)
       ELSE <<Head(s)>> \o ReplaceRuns(Tail(s), cls, rep)

Reverse(s) == [i \in 1..Len(s) |-> s[Len(s) + 1 - i]]

\* s with the leading and the trailing characters of cls removed
Strip(s, cls) == Reverse(DropWhile(Reverse(DropWhile(s, cls)), cls))

\* String.prototype.trim
Trim(s) == Strip(s, Whitespace)

\* ------------------------------------------------------ normalizeRoomName
normalizeRoomName(name) ==
  IF Falsy(name) THEN Null
  ELSE Trim(ReplaceRuns(
              ReplaceRuns(toLowerCase(name),
                          Chars \ (LowerChars \cup DigitChars), <<" ">>),
              Whitespace, <<" ">>))

\* ---------------------------------------------------------- identify-room
\* text.split(/\s*[-|]\s*/)[0]: the text before the first separator and the
\* whitespace in front of it
RECURSIVE BeforeSeparator(_)
BeforeSeparator(s) ==
  IF s = <<>> THEN <<>>
  ELSE IF DropWhile(s, Whitespace) # <<>>
          /\ Head(DropWhile(s, Whitespace)) \in Punctuation
       THEN <<>>
       ELSE <<Head(s)>> \o BeforeSeparator(Tail(s))

\* lower-case, then the first letter of every space-separated word upper-cased
CapitalizeWords(s) ==
  LET low == toLowerCase(s)
  IN  [i \in 1..Len(low) |->
         IF i = 1 \/ low[i - 1] = " " THEN toUpperChar(low[i]) ELSE low[i]]

cleanHeading(text) ==
  IF Falsy(text) THEN text
  ELSE LET c1 == Trim(ReplaceRuns(text, Whitespace, <<" ">>))
           c2 == Trim(ReplaceRuns(
                        ReplaceRuns(c1,
                                    Chars \ (UpperChars \cup LowerChars \cup Whitespace),
                                    <<" ">>),
                        Whitespace, <<" ">>))
           c3 == BeforeSeparator(c2)
           c4 == Strip(c3, Chars \ (UpperChars \cup LowerChars \cup DigitChars))
       IN  CapitalizeWords(c4)

looksLikeAllCaps(text) ==
  LET normalized == ReplaceRuns(ReplaceRuns(text, Whitespace, <<>>),
                                Chars \ (UpperChars \cup LowerChars \cup DigitChars),
                                <<>>)
      alphaChars == ReplaceRuns(normalized, DigitChars, <<>>)
  IN  /\ Len(normalized) # 0
      /\ Len(alphaChars) # 0
      /\ alphaChars = toUpperCase(alphaChars)

\* default of options.minConfidence
minConfidence == 45

Range(s) == {s[i] : i \in 1..Len(s)}

\* s.filter(...): the elements of s, in order, that are in keep
RECURSIVE FilterSeq(_, _)
FilterSeq(s, keep) ==
  IF s = <<>> THEN <<>>
  ELSE IF Head(s) \in keep THEN <<Head(s)>> \o FilterSeq(Tail(s), keep)
       ELSE FilterSeq(Tail(s), keep)

\* a sorts strictly before b: higher confidence first, then longer text
\* (confidences are whole numbers here, so a difference above 0.1 is any difference)
RankedBefore(a, b) ==
  \/ a.confidence > b.confidence
  \/ a.confidence = b.confidence /\ Len(a.text) > Len(b.text)

\* rankedLines[0] of a non-empty list: the first line of the (stable) sort
BestLine(lines) ==
  LET first == CHOOSE i \in 1..Len(lines) :
                 \A j \in 1..Len(lines) :
                   /\ ~RankedBefore(lines[j], lines[i])
                   /\ (j < i => RankedBefore(lines[i], lines[j]))
  IN  lines[first]

\* What the recognizer returned for one page: data.lines and data.text
OcrKitCaps  == [lines |-> << [text |-> <<"B","e","d">>, confidence |-> 95],
                            [text |-> <<"K","I","T">>, confidence |-> 90] >>,
                text  |-> <<"B","e","d"," ","K","I","T">>]
OcrKitMixed == [lines |-> << [text |-> <<" ","K","i","t"," ">>, confidence |-> 88] >>,
                text  |-> <<" ","K","i","t"," ">>]
OcrBed      == [lines |-> << [text |-> <<"B","e","d"," ","1">>, confidence |-> 70] >>,
                text  |-> <<"B","e","d"," ","1">>]
OcrLowConf  == [lines |-> << [text |-> <<"K","i","t">>, confidence |-> 30] >>,
                text  |-> <<"K","i","t"," ">>]
OcrBlank    == [lines |-> << >>, text |-> Null]
OcrDashes   == [lines |-> << [text |-> <<"-","-">>, confidence |-> 50] >>,
                text  |-> <<"-","-">>]

OcrResults == {OcrKitCaps, OcrKitMixed, OcrBed, OcrLowConf, OcrBlank, OcrDashes}

\* the results the whole-run specification draws from; the detection and
\* grouping specification draws from all of OcrResults
PipelineOcrResults == {OcrKitMixed, OcrBlank}

\* identifyRoomName, from the recognizer's result on (clean = true)
identifyRoomName(result) ==
  LET lines == result.lines
      eligibleLines == FilterSeq(lines,
                         {l \in Range(lines) : l.confidence >= minConfidence})
      uppercaseCandidates == FilterSeq(eligibleLines,
                         {l \in Range(eligibleLines) : looksLikeAllCaps(l.text)})
      rankedLines == IF Len(uppercaseCandidates) > 0
                     THEN uppercaseCandidates ELSE eligibleLines
      hasBestLine == rankedLines # <<>>
      fallbackText == IF Falsy(result.text) THEN Null ELSE Trim(result.text)
      rawText == OrElse(OrElse(IF hasBestLine
                               THEN Trim(BestLine(rankedLines).text) ELSE Null,
                               fallbackText), Null)
  IN  IF Falsy(rawText)
      THEN [roomName |-> Null, rawText |-> Null, confidence |-> 0]
      ELSE [roomName |-> cleanHeading(rawText),
            rawText |-> rawText,
            confidence |-> IF hasBestLine
                           THEN BestLine(rankedLines).confidence ELSE 0]

\* ------------------------------------------------------------ pdfGenerate
VARIABLES
  continueOnError,  \* options.continueOnError
  concurrency,      \* the concurrency option after defaulting
  pageCount,        \* pagesToProcess.length
  stage,            \* where pdfGenerate is
  ocr,              \* per page, what the recognizer returned
  roomDetections,
  groups,
  processedPages,
  groupCursor,
  worker,           \* per worker: where it is suspended and the group it holds
  poolState,        \* the Promise.all over the workers
  pipeline,         \* per group index: how its pipeline ended
  failOrder,        \* group indices in the order their pipelines failed
  claimLog,         \* the claims made, in order: [worker, group]
  mergedPdfPath,
  outcome,          \* how pdfGenerate settled, and the error it threw
  report,           \* processedPages of the report the caller received
  mergeOutput,      \* options.mergeOutput !== false
  pdfReadable,      \* whether the renderer can load the document
  dirs,             \* which of pagesDir and outputDir exist
  pageFiles,        \* the page images in pagesDir
  outputFiles,      \* the renders in outputDir
  mergedDocument,   \* the PDF at the merged path: whether it exists, its images
  warned,           \* the steps that logged a warning instead of throwing
  upload,           \* server: what the client sent
  uploadFile,       \* server: whether the uploaded file is in uploadsDir
  tempDir,          \* server: whether the handler's mkdir of tempDir stands
  request,          \* server: where the handling of the request is
  response,         \* server: the response sent
  nameText,         \* normalizeRoomName called on its own: the argument
  nameNormalized,   \* what that call returned
  nameRenormalized, \* what a second call, on the first one's result, returned
  keyLookup,        \* an API key lookup: its arguments, the files, the environment, its result
  consoleFns,       \* the functions console.warn and console.log hold
  pdfToPngsCalls,   \* per pdfToPngs call: where it is, the functions it saved
  mergedAtDefaultPath, \* overlapping requests: the file at the default merged path
  handlers          \* overlapping requests: per request, where its handler is

\* the variables of normalizeRoomName called on its own
textVars == <<nameText, nameNormalized, nameRenormalized>>

\* the state of the /process handler of server.js
serverVars == <<upload, uploadFile, tempDir, request, response>>

\* the state outside pdfGenerate and the calls it makes
\* the console of the process and the pdfToPngs calls that patch it
consoleVars == <<consoleFns, pdfToPngsCalls>>

\* the /process handlers that run at the same time and the file they share
overlapVars == <<mergedAtDefaultPath, handlers>>

elsewhere == <<textVars, serverVars, keyLookup, consoleVars, overlapVars>>

\* the document and the options pdfGenerate only reads
inputVars == <<mergeOutput, pdfReadable>>

\* the directories and files pdfGenerate and its callees write
fileVars == <<dirs, pageFiles, outputFiles, mergedDocument>>

\* the state of one pdfGenerate call
runVars == <<continueOnError, concurrency, pageCount, stage, ocr, roomDetections,
             groups, processedPages, groupCursor, worker, poolState, pipeline,
             failOrder, claimLog, mergedPdfPath, outcome, report, inputVars,
             fileVars, warned>>

vars == <<runVars, elsewhere>>

NoError == [source |-> "none", at |-> 0]
\* an Error object: the call that raised it and the page or group index it was for
Error(source, at) == [source |-> source, at |-> at]

\* a hole of new Array(n)
Unset == [unset |-> TRUE]

Min(a, b) == IF a < b THEN a ELSE b

\* pagesToProcess[i]: the page image is identified by its index
PagePath(i) == i

\* the concurrency used when options.concurrency is not a positive integer
DefaultConcurrency == 2

\* options.concurrency: 0 for an absent or invalid one
RequestedConcurrency == 0..MaxConcurrency

\* Number.isInteger(options.concurrency) && options.concurrency > 0
\*   ? options.concurrency : 2
EffectiveConcurrency(requested) ==
  IF requested > 0 THEN requested ELSE DefaultConcurrency

\* the result of a call that was not made
NotCalled == <<"not called">>

\* normalizeRoomName is not called on its own
NoNameCall ==
  /\ nameText = Null
  /\ nameNormalized = NotCalled
  /\ nameRenormalized = NotCalled

\* the result of a key lookup that has not returned or thrown
NoKey == [kind |-> "pending", key |-> Null, error |-> "none"]

\* no API key is looked up
NoKeyLookup ==
  keyLookup = [provider |-> "none", explicitKey |-> Null, keyFile |-> "none",
               files |-> <<>>, env |-> Null, result |-> NoKey]

\* console.warn and console.log as they were before pdfToPngs was first called
OriginalFn == 0

\* pdfToPngs is not called on its own: the console is untouched
NoPdfToPngsCall ==
  /\ consoleFns = [warn |-> OriginalFn, log |-> OriginalFn]
  /\ pdfToPngsCalls = <<>>

\* no file at the default merged path
NoMergedFile == [exists |-> FALSE, writer |-> 0]

\* a single request at most is handled
NoOverlap ==
  /\ mergedAtDefaultPath = NoMergedFile
  /\ handlers = <<>>

\* no PDF at the merged path
NoDocument == [exists |-> FALSE, images |-> {}]

\* no response sent yet
NoResponse == [status |-> 0]

\* pdfGenerate is called from the command line: no request is handled
NoRequest ==
  /\ upload = "none"
  /\ uploadFile = FALSE
  /\ tempDir = FALSE
  /\ request = "none"
  /\ response = NoResponse

\* the options of the call and the number of pages left to process
Options ==
  /\ continueOnError \in BOOLEAN
  /\ \E requested \in RequestedConcurrency :
       concurrency = EffectiveConcurrency(requested)
  /\ pageCount \in 0..MaxPages
  /\ mergeOutput \in BOOLEAN

\* the locals of pdfGenerate and the directories before the call has done
\* anything
Fresh ==
  /\ ocr = <<>>
  /\ roomDetections = <<>>
  /\ groups = <<>>
  /\ processedPages = <<>>
  /\ groupCursor = 0
  /\ worker = <<>>
  /\ poolState = "idle"
  /\ pipeline = <<>>
  /\ failOrder = <<>>
  /\ claimLog = <<>>
  /\ mergedPdfPath = Null
  /\ outcome = [kind |-> "pending", error |-> NoError]
  /\ report = <<>>
  /\ dirs = {}
  /\ pageFiles = {}
  /\ outputFiles = {}
  /\ mergedDocument = NoDocument
  /\ warned = {}

Init ==
  /\ Options
  /\ pdfReadable \in BOOLEAN
  /\ stage = "Rendering"
  /\ Fresh
  /\ NoRequest
  /\ NoNameCall
  /\ NoKeyLookup
  /\ NoPdfToPngsCall
  /\ NoOverlap

\* ---------------------------------------------------------------- rendering
\* await pdfToPngs(...) resolves: pagesDir holds the page images.  Without a
\* page left to process pdfGenerate returns at once, with no merged path.
RenderResolves ==
  /\ stage = "Rendering"
  /\ pdfReadable
  /\ dirs' = dirs \cup {"pagesDir"}
  /\ pageFiles' = {PagePath(i) : i \in 0..(pageCount - 1)}
  /\ IF pageCount = 0
     THEN /\ stage' = "Done"
          /\ outcome' = [kind |-> "returned", error |-> NoError]
     ELSE /\ stage' = "Detecting"
          /\ UNCHANGED outcome
  /\ UNCHANGED <<continueOnError, concurrency, pageCount, ocr, roomDetections,
                 groups, processedPages, groupCursor, worker, poolState, pipeline,
                 failOrder, claimLog, mergedPdfPath, report>>
  /\ UNCHANGED elsewhere
  /\ UNCHANGED <<inputVars, outputFiles, mergedDocument, warned>>

\* await pdfToPngs(...) rejects: pdfGenerate rejects with the renderer's error
RenderRejects ==
  /\ stage = "Rendering"
  /\ ~pdfReadable
  /\ dirs' = dirs \cup {"pagesDir"}
  /\ stage' = "Failed"
  /\ outcome' = [kind |-> "thrown", error |-> Error("render", 0)]
  /\ UNCHANGED <<continueOnError, concurrency, pageCount, ocr, roomDetections,
                 groups, processedPages, groupCursor, worker, poolState, pipeline,
                 failOrder, claimLog, mergedPdfPath, report>>
  /\ UNCHANGED elsewhere
  /\ UNCHANGED <<inputVars, pageFiles, outputFiles, mergedDocument, warned>>

\* ------------------------------------------------------- detection loop
\* variant of Detected: the detection is recorded under the next page's image
DetectedForNextPage(detection, pagePath) ==
  [roomName   |-> detection.roomName,
   rawText    |-> detection.rawText,
   confidence |-> detection.confidence,
   normalized |-> normalizeRoomName(OrElse(detection.roomName, detection.rawText)),
   pageImage  |-> pagePath + 1,
   error      |-> NoError]

\* roomDetections.push({...detection, normalized, pageImage})
Detected(detection, pagePath) ==
  [roomName   |-> detection.roomName,
   rawText    |-> detection.rawText,
   confidence |-> detection.confidence,
   normalized |-> normalizeRoomName(OrElse(detection.roomName, detection.rawText)),
   pageImage  |-> pagePath,
   error      |-> NoError]

\* the detection pushed by the catch block
Undetected(pagePath, error) ==
  [roomName |-> Null, rawText |-> Null, confidence |-> 0, normalized |-> Null,
   pageImage |-> pagePath, error |-> error]

\* the recognizer's result recorded for a page whose identifyRoomName call threw
OcrThrew == [lines |-> <<>>, text |-> <<"threw">>]

\* one iteration of the detection loop whose identifyRoomName call resolves
DetectPage(results) ==
  /\ stage = "Detecting"
  /\ Len(roomDetections) < pageCount
  /\ \E result \in results :
       LET i == Len(roomDetections)
       IN  /\ ocr' = Append(ocr, result)
           /\ roomDetections' =
                Append(roomDetections, Detected(identifyRoomName(result), PagePath(i)))
  /\ stage' = IF Len(roomDetections) + 1 = pageCount THEN "Grouping" ELSE stage
  /\ UNCHANGED <<continueOnError, concurrency, pageCount, groups, processedPages,
                 groupCursor, worker, poolState, pipeline, failOrder, claimLog,
                 mergedPdfPath, outcome, report>>
  /\ UNCHANGED elsewhere
  /\ UNCHANGED <<inputVars, fileVars, warned>>

\* variant of DetectPageFails: the catch block never rethrows
DetectPageFailsSwallowed ==
  /\ stage = "Detecting"
  /\ Len(roomDetections) < pageCount
  /\ LET i == Len(roomDetections)
         error == Error("ocr", i)
     IN  /\ ocr' = Append(ocr, OcrThrew)
         /\ roomDetections' = Append(roomDetections, Undetected(PagePath(i), error))
         /\ stage' = IF i + 1 = pageCount THEN "Grouping" ELSE stage
  /\ UNCHANGED <<continueOnError, concurrency, pageCount, groups, processedPages,
                 groupCursor, worker, poolState, pipeline, failOrder, claimLog,
                 mergedPdfPath, outcome, report>>
  /\ UNCHANGED elsewhere
  /\ UNCHANGED <<inputVars, fileVars, warned>>

\* one iteration of the detection loop whose identifyRoomName call rejects
DetectPageFails ==
  /\ stage = "Detecting"
  /\ Len(roomDetections) < pageCount
  /\ LET i == Len(roomDetections)
         error == Error("ocr", i)
     IN  /\ ocr' = Append(ocr, OcrThrew)
         /\ roomDetections' = Append(roomDetections, Undetected(PagePath(i), error))
         /\ IF ~continueOnError
            THEN /\ stage' = "Aborted"
                 /\ outcome' = [kind |-> "thrown", error |-> error]
            ELSE /\ stage' = IF i + 1 = pageCount THEN "Grouping" ELSE stage
                 /\ UNCHANGED outcome
  /\ UNCHANGED <<continueOnError, concurrency, pageCount, groups, processedPages,
                 groupCursor, worker, poolState, pipeline, failOrder, claimLog,
                 mergedPdfPath, report>>
  /\ UNCHANGED elsewhere
  /\ UNCHANGED <<inputVars, fileVars, warned>>

\* -------------------------------------------------------- grouping loop
\* the inner while loop: the first index at or after cursor that does not
\* continue the run of pages named normalized
RECURSIVE ScanRun(_, _, _)
ScanRun(dets, cursor, normalized) ==
  IF /\ cursor < Len(dets)
     /\ ~Falsy(dets[cursor + 1].normalized)
     /\ dets[cursor + 1].normalized = normalized
  THEN ScanRun(dets, cursor + 1, normalized)
  ELSE cursor

\* variant of NewGroup: the page indices start one past the group's first page
NewGroupOffByOne(dets, index, cursor, groupId) ==
  [groupId        |-> groupId,
   pageIndices    |-> [k \in 1..(cursor - index) |-> index + k],
   pages          |-> [k \in 1..(cursor - index) |-> PagePath(index + k)],
   roomName       |-> OrElse(OrElse(dets[index + 1].roomName, dets[index + 1].rawText),
                             Null),
   normalizedName |-> dets[index + 1].normalized]

\* variant of NewGroup: roomName prefers the raw text to the cleaned name
NewGroupRawFirst(dets, index, cursor, groupId) ==
  [groupId        |-> groupId,
   pageIndices    |-> [k \in 1..(cursor - index) |-> index + k - 1],
   pages          |-> [k \in 1..(cursor - index) |-> PagePath(index + k - 1)],
   roomName       |-> OrElse(OrElse(dets[index + 1].rawText, dets[index + 1].roomName),
                             Null),
   normalizedName |-> dets[index + 1].normalized]

\* the group opened at index and closed before cursor
NewGroup(dets, index, cursor, groupId) ==
  [groupId        |-> groupId,
   pageIndices    |-> [k \in 1..(cursor - index) |-> index + k - 1],
   pages          |-> [k \in 1..(cursor - index) |-> PagePath(index + k - 1)],
   roomName       |-> OrElse(OrElse(dets[index + 1].roomName, dets[index + 1].rawText),
                             Null),
   normalizedName |-> dets[index + 1].normalized]

\* the outer for loop, from index on, with the groups pushed so far
RECURSIVE GroupFrom(_, _, _)
GroupFrom(dets, index, acc) ==
  IF index >= Len(dets) THEN acc
  ELSE LET normalized == dets[index + 1].normalized
           cursor == IF ~Falsy(normalized)
                     THEN ScanRun(dets, index + 1, normalized)
                     ELSE index + 1
       IN  GroupFrom(dets, cursor,
                     Append(acc, NewGroup(dets, index, cursor, Len(acc) + 1)))

BuildGroups(dets) == GroupFrom(dets, 0, <<>>)

\* lines 108-161: the groups, the result array and the cursor
GroupPages ==
  /\ stage = "Grouping"
  /\ groups' = BuildGroups(roomDetections)
  /\ processedPages' = [p \in 0..(pageCount - 1) |-> Unset]
  /\ groupCursor' = 0
  /\ stage' = "Processing"
  /\ UNCHANGED <<continueOnError, concurrency, pageCount, ocr, roomDetections,
                 worker, poolState, pipeline, failOrder, claimLog, mergedPdfPath,
                 outcome, report>>
  /\ UNCHANGED elsewhere
  /\ UNCHANGED <<inputVars, fileVars, warned>>

\* ----------------------------------------------------------- worker pool
\* variant of workerCount: one worker per unit of concurrency, however few
\* groups there are
workerCountUnclamped == concurrency

workerCount == Min(concurrency, Len(groups))

\* variant of NextCursor: the cursor is written back without the increment
NextCursorNotAdvanced(currentGroupIndex) == currentGroupIndex

\* variant of NextCursor: the cursor jumps over the next group
NextCursorSkipsOne(currentGroupIndex) == currentGroupIndex + 2

\* groupCursor = currentGroupIndex + 1
NextCursor(currentGroupIndex) == currentGroupIndex + 1

\* variant of WorkerLoop: the worker leaves the loop one group early
WorkerLoopStopsEarly(w, st) ==
  LET currentGroupIndex == st.cursor
  IN  IF currentGroupIndex + 1 >= Len(groups)
      THEN [st EXCEPT !.worker[w] = [pc |-> "done", group |-> -1]]
      ELSE [cursor |-> NextCursor(currentGroupIndex),
            worker |-> [st.worker EXCEPT
                          ![w] = [pc |-> "preparing", group |-> currentGroupIndex]],
            log    |-> Append(st.log, [worker |-> w, group |-> currentGroupIndex])]

\* The head of the worker's while loop, which runs without suspending: read the
\* cursor, leave the loop when it is past the groups, otherwise advance it and
\* start the group's pipeline, which suspends at describePageAndGenerate's
\* mkdir of outputDir.  st carries the cursor, the workers and the log.
WorkerLoop(w, st) ==
  LET currentGroupIndex == st.cursor
  IN  IF currentGroupIndex >= Len(groups)
      THEN [st EXCEPT !.worker[w] = [pc |-> "done", group |-> -1]]
      ELSE [cursor |-> NextCursor(currentGroupIndex),
            worker |-> [st.worker EXCEPT
                          ![w] = [pc |-> "preparing", group |-> currentGroupIndex]],
            log    |-> Append(st.log, [worker |-> w, group |-> currentGroupIndex])]

\* Array.from({ length: workerCount }, (_, index) => worker(index + 1)): each
\* worker runs to its first await before the next one is called
RECURSIVE StartWorkers(_, _, _)
StartWorkers(w, count, st) ==
  IF w > count THEN st ELSE StartWorkers(w + 1, count, WorkerLoop(w, st))

\* variant of AllDone: one worker that has returned is enough
AllDoneAny(workers) == \E w \in DOMAIN workers : workers[w].pc = "done"

AllDone(workers) == \A w \in DOMAIN workers : workers[w].pc = "done"

StartPool ==
  /\ stage = "Processing"
  /\ poolState = "idle"
  /\ LET st == StartWorkers(1, workerCount,
                 [cursor |-> groupCursor,
                  worker |-> [w \in 1..workerCount |-> [pc |-> "new", group |-> -1]],
                  log    |-> claimLog])
     IN  /\ groupCursor' = st.cursor
         /\ worker' = st.worker
         /\ claimLog' = st.log
  /\ poolState' = "running"
  /\ pipeline' = [g \in 0..(Len(groups) - 1) |-> "none"]
  /\ UNCHANGED <<continueOnError, concurrency, pageCount, stage, ocr, roomDetections,
                 groups, processedPages, failOrder, mergedPdfPath, outcome, report>>
  /\ UNCHANGED elsewhere
  /\ UNCHANGED <<inputVars, fileVars, warned>>

\* variant of RenderPath: the render is named after the number of pages of
\* the group
RenderPathByPageCount(pages) ==
  <<"render", Len(pages), IF Len(pages) > 1 THEN "-group" ELSE "">>

\* page-processing.js: the render is named after the group's first page
RenderPath(pages) ==
  <<"render", pages[1], IF Len(pages) > 1 THEN "-group" ELSE "">>

\* what describePageAndGenerate resolves with for a group
PipelineResult(group) ==
  [description |-> <<"description", group.groupId>>,
   renderPath  |-> RenderPath(group.pages)]

\* error && (error.message || String(error))
ErrorMessage(error) == <<"message", error.source, error.at>>

\* variant of Companions: the page itself is not filtered out
CompanionsWithSelf(pages, localIndex) == pages

\* group.pages.filter((_, idx) => idx !== localIndex), localIndex from 1 here
Companions(pages, localIndex) ==
  [k \in 1..(Len(pages) - 1) |-> IF k < localIndex THEN pages[k] ELSE pages[k + 1]]

SuccessResult(group, localIndex, result) ==
  LET pageIndex == group.pageIndices[localIndex]
  IN  [pageImage      |-> PagePath(pageIndex),
       groupedWith    |-> Companions(group.pages, localIndex),
       groupId        |-> group.groupId,
       roomName       |-> OrElse(roomDetections[pageIndex + 1].roomName, Null),
       roomHeadingRaw |-> OrElse(roomDetections[pageIndex + 1].rawText, Null),
       description    |-> result.description,
       renderPath     |-> result.renderPath,
       error          |-> NoError,
       errorMessage   |-> Null]

FailureResult(group, localIndex, error) ==
  LET pageIndex == group.pageIndices[localIndex]
  IN  [pageImage      |-> PagePath(pageIndex),
       groupedWith    |-> Companions(group.pages, localIndex),
       groupId        |-> group.groupId,
       roomName       |-> OrElse(roomDetections[pageIndex + 1].roomName, Null),
       roomHeadingRaw |-> OrElse(roomDetections[pageIndex + 1].rawText, Null),
       description    |-> Null,
       renderPath     |-> Null,
       error          |-> error,
       errorMessage   |-> ErrorMessage(error)]

\* the position of pageIndex in group.pageIndices, 0 when it is not there
LocalIndex(group, pageIndex) ==
  IF \E k \in 1..Len(group.pageIndices) : group.pageIndices[k] = pageIndex
  THEN CHOOSE k \in 1..Len(group.pageIndices) : group.pageIndices[k] = pageIndex
  ELSE 0

\* variant of FanOutSuccess: the results are pushed, in completion order,
\* onto the first indices that hold nothing yet
FanOutSuccessPushed(slots, group, result) ==
  LET free == {p \in DOMAIN slots : slots[p] = Unset}
      rank(p) == Cardinality({q \in free : q < p}) + 1
  IN  [p \in DOMAIN slots |->
         IF p \in free /\ rank(p) <= Len(group.pageIndices)
         THEN SuccessResult(group, rank(p), result)
         ELSE slots[p]]

\* variant of FanOutSuccess: the slots that hold a result already are written
\* again
FanOutSuccessRewrites(slots, group, result) ==
  [p \in DOMAIN slots |->
     IF LocalIndex(group, p) # 0
     THEN SuccessResult(group, LocalIndex(group, p), result)
     ELSE IF slots[p] # Unset THEN SuccessResult(group, 1, result)
     ELSE slots[p]]

\* group.pageIndices.forEach(...) of the try block
FanOutSuccess(slots, group, result) ==
  [p \in DOMAIN slots |->
     IF LocalIndex(group, p) # 0
     THEN SuccessResult(group, LocalIndex(group, p), result)
     ELSE slots[p]]

\* variant of FanOutFailure: only the group's first page gets the failure
FanOutFailureFirstPageOnly(slots, group, error) ==
  [p \in DOMAIN slots |->
     IF group.pageIndices[1] = p THEN FailureResult(group, 1, error) ELSE slots[p]]

\* variant of FanOutFailure: the failure is written over every page's slot
FanOutFailureEverywhere(slots, group, error) ==
  [p \in DOMAIN slots |->
     FailureResult(group,
                   IF LocalIndex(group, p) # 0 THEN LocalIndex(group, p) ELSE 1,
                   error)]

\* group.pageIndices.forEach(...) of the catch block
FanOutFailure(slots, group, error) ==
  [p \in DOMAIN slots |->
     IF LocalIndex(group, p) # 0
     THEN FailureResult(group, LocalIndex(group, p), error)
     ELSE slots[p]]

\* variant of Rethrows: the catch block rethrows whatever continueOnError is
RethrowsAlways == TRUE

\* if (!continueOnError) throw error
Rethrows == ~continueOnError

\* The worker leaves the try/catch of a group without throwing: it is back at
\* the head of its loop.  Promise.all resolves when the last worker returns.
WorkerContinues(w) ==
  LET st == WorkerLoop(w, [cursor |-> groupCursor, worker |-> worker, log |-> claimLog])
  IN  /\ groupCursor' = st.cursor
      /\ worker' = st.worker
      /\ claimLog' = st.log
      /\ IF poolState = "running" /\ AllDone(st.worker)
         THEN poolState' = "resolved" /\ stage' = "Merging"
         ELSE UNCHANGED <<poolState, stage>>
      /\ UNCHANGED outcome

\* The worker rethrows: its promise rejects, and Promise.all, unless it has
\* settled already, rejects with that error, which pdfGenerate does not catch.
WorkerThrows(w, error) ==
  /\ worker' = [worker EXCEPT ![w] = [pc |-> "thrown", group |-> -1]]
  /\ UNCHANGED <<groupCursor, claimLog>>
  /\ IF poolState = "running"
     THEN /\ poolState' = "rejected"
          /\ stage' = "Aborted"
          /\ outcome' = [kind |-> "thrown", error |-> error]
     ELSE UNCHANGED <<poolState, stage, outcome>>

\* variant of GroupFails: the catch block rethrows before it records the
\* failure on the group's pages
GroupFailsUnrecorded(w, error) ==
  LET g == worker[w].group
  IN  /\ processedPages' = processedPages
      /\ pipeline' = [pipeline EXCEPT ![g] = "failed"]
      /\ failOrder' = Append(failOrder, g)
      /\ IF ~continueOnError THEN WorkerThrows(w, error) ELSE WorkerContinues(w)

\* the catch block of the worker, for the group the worker holds
GroupFails(w, error) ==
  LET g == worker[w].group
  IN  /\ processedPages' = FanOutFailure(processedPages, groups[g + 1], error)
      /\ pipeline' = [pipeline EXCEPT ![g] = "failed"]
      /\ failOrder' = Append(failOrder, g)
      /\ IF Rethrows THEN WorkerThrows(w, error) ELSE WorkerContinues(w)

\* describePageAndGenerate: await fs.promises.mkdir(outputDir, {recursive: true})
\* resolves
OutputDirMade(w) ==
  /\ worker[w].pc = "preparing"
  /\ worker' = [worker EXCEPT ![w].pc = "describing"]
  /\ dirs' = dirs \cup {"outputDir"}
  /\ UNCHANGED <<continueOnError, concurrency, pageCount, stage, ocr, roomDetections,
                 groups, processedPages, groupCursor, poolState, pipeline, failOrder,
                 claimLog, mergedPdfPath, outcome, report>>
  /\ UNCHANGED elsewhere
  /\ UNCHANGED <<inputVars, pageFiles, outputFiles, mergedDocument, warned>>

\* await describePageAndGenerate(...) resolves: the group's page images were
\* read, the render was written into outputDir, and the title overlay is
\* started
DescribeResolves(w) ==
  /\ worker[w].pc = "describing"
  /\ Range(groups[worker[w].group + 1].pages) \subseteq pageFiles
  /\ "outputDir" \in dirs
  /\ worker' = [worker EXCEPT ![w].pc = "titling"]
  /\ outputFiles' = outputFiles \cup {RenderPath(groups[worker[w].group + 1].pages)}
  /\ UNCHANGED <<continueOnError, concurrency, pageCount, stage, ocr, roomDetections,
                 groups, processedPages, groupCursor, poolState, pipeline, failOrder,
                 claimLog, mergedPdfPath, outcome, report>>
  /\ UNCHANGED elsewhere
  /\ UNCHANGED <<inputVars, dirs, pageFiles, mergedDocument, warned>>

\* await describePageAndGenerate(...) rejects, at its mkdir or after it
DescribeRejects(w) ==
  /\ worker[w].pc \in {"preparing", "describing"}
  /\ GroupFails(w, Error("describe", worker[w].group))
  /\ UNCHANGED <<continueOnError, concurrency, pageCount, ocr, roomDetections,
                 groups, mergedPdfPath, report>>
  /\ UNCHANGED elsewhere
  /\ UNCHANGED <<inputVars, fileVars, warned>>

\* a && a.trim()
TrimmedIfAny(a) == IF Falsy(a) THEN a ELSE Trim(a)

\* .split(" ").map((part) => part.charAt(0).toUpperCase() + part.slice(1)).join(" ")
CapitalizeParts(s) ==
  [i \in 1..Len(s) |-> IF i = 1 \/ s[i - 1] = " " THEN toUpperChar(s[i]) ELSE s[i]]

\* variant of titleText: the chain ends without the fallback title
titleTextNoFallback(group, dets) ==
  LET headingSource == dets[group.pageIndices[1] + 1]
  IN  OrElse(TrimmedIfAny(headingSource.rawText),
      OrElse(TrimmedIfAny(group.roomName),
      OrElse(TrimmedIfAny(headingSource.roomName),
             IF Falsy(group.normalizedName) THEN group.normalizedName
             ELSE CapitalizeParts(group.normalizedName))))

\* the title the worker passes to addTitleToImage for a group
titleText(group, dets) ==
  LET headingSource == dets[group.pageIndices[1] + 1]
  IN  OrElse(TrimmedIfAny(headingSource.rawText),
      OrElse(TrimmedIfAny(group.roomName),
      OrElse(TrimmedIfAny(headingSource.roomName),
      OrElse(IF Falsy(group.normalizedName) THEN group.normalizedName
             ELSE CapitalizeParts(group.normalizedName),
             <<"R", "o", "o", "m">>))))

\* addTitleToImage does not throw "text must be a non-empty string"
TitleAccepted(text) == ~Falsy(text) /\ Trim(text) # <<>>

\* await addTitleToImage(...) resolves, having read the render and written it
\* back: the results are fanned out
TitleResolves(w) ==
  /\ worker[w].pc = "titling"
  /\ \E text \in {titleText(groups[worker[w].group + 1], roomDetections)} :
       TitleAccepted(text)
  /\ RenderPath(groups[worker[w].group + 1].pages) \in outputFiles
  /\ LET g == worker[w].group
     IN  /\ processedPages' = FanOutSuccess(processedPages, groups[g + 1],
                                            PipelineResult(groups[g + 1]))
         /\ pipeline' = [pipeline EXCEPT ![g] = "ok"]
  /\ WorkerContinues(w)
  /\ UNCHANGED <<continueOnError, concurrency, pageCount, ocr, roomDetections,
                 groups, failOrder, mergedPdfPath, report>>
  /\ UNCHANGED elsewhere
  /\ UNCHANGED <<inputVars, fileVars, warned>>

\* await addTitleToImage(...) rejects
TitleRejects(w) ==
  /\ worker[w].pc = "titling"
  /\ GroupFails(w, Error("title", worker[w].group))
  /\ UNCHANGED <<continueOnError, concurrency, pageCount, ocr, roomDetections,
                 groups, mergedPdfPath, report>>
  /\ UNCHANGED elsewhere
  /\ UNCHANGED <<inputVars, fileVars, warned>>

\* ------------------------------------------------------ merge and report
\* options.mergedOutputPath || path.resolve(process.cwd(), "merged-output.pdf")
defaultMergedPath == <<"merged-output.pdf">>

\* return { ..., processedPages, ..., mergedPdfPath }
ReturnReport ==
  /\ stage' = "Done"
  /\ outcome' = [kind |-> "returned", error |-> NoError]
  /\ report' = processedPages

\* shouldMerge is false: the report is returned with a null mergedPdfPath
MergeSkipped ==
  /\ stage = "Merging"
  /\ ~mergeOutput
  /\ ReturnReport
  /\ UNCHANGED <<continueOnError, concurrency, pageCount, ocr, roomDetections,
                 groups, processedPages, groupCursor, worker, poolState, pipeline,
                 failOrder, claimLog, mergedPdfPath>>
  /\ UNCHANGED elsewhere
  /\ UNCHANGED <<inputVars, fileVars, warned>>

\* await outputMerge(...) resolves: outputDir exists and holds images, which
\* are all put into the PDF written at the merged path
MergeResolves ==
  /\ stage = "Merging"
  /\ mergeOutput
  /\ "outputDir" \in dirs
  /\ outputFiles # {}
  /\ mergedDocument' = [exists |-> TRUE, images |-> outputFiles]
  /\ mergedPdfPath' = defaultMergedPath
  /\ stage' = "CleaningUp"
  /\ UNCHANGED <<continueOnError, concurrency, pageCount, ocr, roomDetections,
                 groups, processedPages, groupCursor, worker, poolState, pipeline,
                 failOrder, claimLog, outcome, report>>
  /\ UNCHANGED elsewhere
  /\ UNCHANGED <<inputVars, dirs, pageFiles, outputFiles, warned>>

\* variant of MergeRejects: the error of outputMerge is not caught
MergeRejectsFatal ==
  /\ stage = "Merging"
  /\ mergeOutput
  /\ warned' = warned \cup {"merge"}
  /\ stage' = "Failed"
  /\ outcome' = [kind |-> "thrown", error |-> Error("merge", 0)]
  /\ UNCHANGED <<continueOnError, concurrency, pageCount, ocr, roomDetections,
                 groups, processedPages, groupCursor, worker, poolState, pipeline,
                 failOrder, claimLog, mergedPdfPath, report>>
  /\ UNCHANGED elsewhere
  /\ UNCHANGED <<inputVars, fileVars>>

\* variant of MergeRejects: the intermediate images are deleted although the
\* merge failed
MergeRejectsAndCleans ==
  /\ stage = "Merging"
  /\ mergeOutput
  /\ warned' = warned \cup {"merge"}
  /\ outputFiles' = {}
  /\ pageFiles' = {}
  /\ ReturnReport
  /\ UNCHANGED <<continueOnError, concurrency, pageCount, ocr, roomDetections,
                 groups, processedPages, groupCursor, worker, poolState, pipeline,
                 failOrder, claimLog, mergedPdfPath>>
  /\ UNCHANGED elsewhere
  /\ UNCHANGED <<inputVars, dirs, mergedDocument>>

\* await outputMerge(...) rejects (no outputDir, no image in it, or a failure
\* while the PDF is built or written): the outer catch logs a warning and
\* the report is returned
MergeRejects ==
  /\ stage = "Merging"
  /\ mergeOutput
  /\ warned' = warned \cup {"merge"}
  /\ ReturnReport
  /\ UNCHANGED <<continueOnError, concurrency, pageCount, ocr, roomDetections,
                 groups, processedPages, groupCursor, worker, poolState, pipeline,
                 failOrder, claimLog, mergedPdfPath>>
  /\ UNCHANGED elsewhere
  /\ UNCHANGED <<inputVars, fileVars>>

\* the cleanup loops ran to the end: every PNG of outputDir, then every PNG
\* of pagesDir, is deleted, and the report is returned
CleanupCompletes ==
  /\ stage = "CleaningUp"
  /\ outputFiles' = {}
  /\ pageFiles' = {}
  /\ ReturnReport
  /\ UNCHANGED <<continueOnError, concurrency, pageCount, ocr, roomDetections,
                 groups, processedPages, groupCursor, worker, poolState, pipeline,
                 failOrder, claimLog, mergedPdfPath>>
  /\ UNCHANGED elsewhere
  /\ UNCHANGED <<inputVars, dirs, mergedDocument, warned>>

\* variant of CleanupFails: the error reaches the catch of the merge, as if
\* the merge itself had failed, and the merged path is not reported
CleanupFailsAsMergeFailure ==
  /\ stage = "CleaningUp"
  /\ \E failedIn \in {"outputDir", "pagesDir"} :
       outputFiles' = IF failedIn = "outputDir" THEN outputFiles ELSE {}
  /\ warned' = warned \cup {"cleanup"}
  /\ mergedPdfPath' = Null
  /\ ReturnReport
  /\ UNCHANGED <<continueOnError, concurrency, pageCount, ocr, roomDetections,
                 groups, processedPages, groupCursor, worker, poolState, pipeline,
                 failOrder, claimLog>>
  /\ UNCHANGED elsewhere
  /\ UNCHANGED <<inputVars, dirs, pageFiles, mergedDocument>>

\* The cleanup threw, and the inner catch logged a warning: either in the
\* outputDir loop, before a file was deleted, or in the pagesDir loop, after
\* every render was deleted and before a page image was.  The report is
\* returned.
CleanupFails ==
  /\ stage = "CleaningUp"
  /\ \E failedIn \in {"outputDir", "pagesDir"} :
       outputFiles' = IF failedIn = "outputDir" THEN outputFiles ELSE {}
  /\ warned' = warned \cup {"cleanup"}
  /\ ReturnReport
  /\ UNCHANGED <<continueOnError, concurrency, pageCount, ocr, roomDetections,
                 groups, processedPages, groupCursor, worker, poolState, pipeline,
                 failOrder, claimLog, mergedPdfPath>>
  /\ UNCHANGED elsewhere
  /\ UNCHANGED <<inputVars, dirs, pageFiles, mergedDocument>>

Next ==
  \/ RenderResolves
  \/ RenderRejects
  \/ DetectPage(PipelineOcrResults)
  \/ DetectPageFails
  \/ GroupPages
  \/ StartPool
  \/ \E w \in DOMAIN worker : OutputDirMade(w)
  \/ \E w \in DOMAIN worker : DescribeResolves(w)
  \/ \E w \in DOMAIN worker : DescribeRejects(w)
  \/ \E w \in DOMAIN worker : TitleResolves(w)
  \/ \E w \in DOMAIN worker : TitleRejects(w)
  \/ MergeSkipped
  \/ MergeResolves
  \/ MergeRejects
  \/ CleanupCompletes
  \/ CleanupFails

Spec == Init /\ [][Next]_vars

\* Every external call that is pending eventually resolves or rejects, and
\* the steps pdfGenerate and the workers take without waiting are taken:
\* the renderer, the recognizer, each worker's calls (mkdir, description and
\* image generation, overlay), the merge and the deletions.
ExternalCallSettles(w) ==
  /\ w \in DOMAIN worker
  /\ \/ OutputDirMade(w)
     \/ DescribeResolves(w)
     \/ DescribeRejects(w)
     \/ TitleResolves(w)
     \/ TitleRejects(w)

\* the worker ids a pool can have
WorkerIds == 1..(IF MaxConcurrency > DefaultConcurrency
                THEN MaxConcurrency ELSE DefaultConcurrency)

CallsSettle ==
  /\ WF_vars(RenderResolves \/ RenderRejects)
  /\ WF_vars(DetectPage(PipelineOcrResults) \/ DetectPageFails)
  /\ WF_vars(GroupPages)
  /\ WF_vars(StartPool)
  /\ \A w \in WorkerIds : WF_vars(ExternalCallSettles(w))
  /\ WF_vars(MergeSkipped \/ MergeResolves \/ MergeRejects)
  /\ WF_vars(CleanupCompletes \/ CleanupFails)

\* a pdfGenerate run none of whose external calls hangs
SpecLive == Init /\ [][Next]_vars /\ CallsSettle

\* Rendering, detection and grouping alone, over every recognizer result
NextGrouping ==
  \/ RenderResolves
  \/ RenderRejects
  \/ DetectPage(OcrResults)
  \/ DetectPageFails
  \/ GroupPages

SpecGrouping == Init /\ [][NextGrouping]_vars

\* -------------------------------------------------- server.js: POST /process
\* what the client sent in the field "pdf": nothing, a file that is not of
\* type application/pdf, one over the size limit, one of type application/pdf
\* that the renderer cannot load, or a PDF
UploadKinds == {"none", "notPdf", "tooLarge", "corrupt", "pdf"}

\* variant of JsonResponse: the object carries the error field only
JsonResponseErrorOnly(status, error, message, requestId) ==
  [status |-> status, body |-> "json", error |-> error, message |-> "none",
   requestId |-> FALSE]

\* res.status(status).json({error, message, requestId}); message is "none"
\* and requestId FALSE for a field the object does not have
JsonResponse(status, error, message, requestId) ==
  [status |-> status, body |-> "json", error |-> error, message |-> message,
   requestId |-> requestId]

\* res.send(pdfBuffer)
PdfResponse ==
  [status |-> 200, body |-> "pdf", error |-> "none", message |-> "none",
   requestId |-> FALSE]

\* error.message of the error the handler caught
MessageOf(error) ==
  IF error = NoError THEN "Failed to generate merged PDF"
  ELSE error.source

\* a request has arrived, with the options of its query string
InitServer ==
  /\ Options
  /\ Fresh
  /\ stage = "NotStarted"
  /\ upload \in UploadKinds
  /\ pdfReadable = (upload = "pdf")
  /\ uploadFile = FALSE
  /\ tempDir = FALSE
  /\ request = "received"
  /\ response = NoResponse
  /\ NoNameCall
  /\ NoKeyLookup
  /\ NoPdfToPngsCall
  /\ NoOverlap

\* fs.promises.rm(tempDir, {recursive: true, force: true})
RemoveTempDir ==
  /\ tempDir' = FALSE
  /\ dirs' = {}
  /\ pageFiles' = {}
  /\ outputFiles' = {}

\* tempDir is on disk: it was made and not removed, or a directory under it
\* was made since
TempDirExists == tempDir \/ dirs # {}

\* upload.single("pdf") passes an error on: the file filter's Error for a file
\* that is not a PDF, multer's LIMIT_FILE_SIZE error for one that is too
\* large.  The error handling middleware answers.
UploadRefused ==
  /\ request = "received"
  /\ upload \in {"notPdf", "tooLarge"}
  /\ response' = IF upload = "tooLarge"
                 THEN JsonResponse(400, "File too large", "none", FALSE)
                 ELSE JsonResponse(500, "Only PDF files are allowed", "none", FALSE)
  /\ request' = "finished"
  /\ UNCHANGED <<upload, uploadFile, tempDir, textVars, runVars, keyLookup, consoleVars,
                 overlapVars>>

\* if (!req.file) return res.status(400).json(...)
NoFileUploaded ==
  /\ request = "received"
  /\ upload = "none"
  /\ response' = JsonResponse(400, "No PDF file uploaded", "none", FALSE)
  /\ request' = "finished"
  /\ UNCHANGED <<upload, uploadFile, tempDir, textVars, runVars, keyLookup, consoleVars,
                 overlapVars>>

\* the upload is stored, tempDir is made and pdfGenerate is called
StartProcessing ==
  /\ request = "received"
  /\ upload \in {"corrupt", "pdf"}
  /\ uploadFile' = TRUE
  /\ tempDir' = TRUE
  /\ stage' = "Rendering"
  /\ request' = "processing"
  /\ UNCHANGED <<upload, response, textVars, keyLookup, consoleVars,
                 overlapVars>>
  /\ UNCHANGED <<continueOnError, concurrency, pageCount, ocr, roomDetections,
                 groups, processedPages, groupCursor, worker, poolState, pipeline,
                 failOrder, claimLog, mergedPdfPath, outcome, report, inputVars,
                 fileVars, warned>>

\* pdfGenerate resolved with a merged PDF that exists: the upload is deleted
\* and the PDF is read and sent
SendMergedPdf ==
  /\ request = "processing"
  /\ outcome.kind = "returned"
  /\ mergedPdfPath # Null
  /\ mergedDocument.exists
  /\ uploadFile' = FALSE
  /\ response' = PdfResponse
  /\ request' = "sent"
  /\ UNCHANGED <<upload, tempDir, textVars, runVars, keyLookup, consoleVars,
                 overlapVars>>

\* the setImmediate callback: the merged PDF is deleted, then tempDir
CleanupAfterSend ==
  /\ request = "sent"
  /\ mergedDocument' = NoDocument
  /\ RemoveTempDir
  /\ request' = "finished"
  /\ UNCHANGED <<upload, uploadFile, response, textVars, keyLookup, consoleVars,
                 overlapVars>>
  /\ UNCHANGED <<continueOnError, concurrency, pageCount, stage, ocr, roomDetections,
                 groups, processedPages, groupCursor, worker, poolState, pipeline,
                 failOrder, claimLog, mergedPdfPath, outcome, report, inputVars,
                 warned>>

\* the catch block: pdfGenerate rejected, or it resolved without a merged PDF
\* and the handler threw; the upload and tempDir are deleted and the error is
\* answered
FailProcessing ==
  /\ request = "processing"
  /\ \/ outcome.kind = "thrown"
     \/ /\ outcome.kind = "returned"
        /\ (mergedPdfPath = Null \/ ~mergedDocument.exists)
  /\ uploadFile' = FALSE
  /\ RemoveTempDir
  /\ response' = JsonResponse(500, "Failed to process PDF",
                              MessageOf(outcome.error), TRUE)
  /\ request' = "finished"
  /\ UNCHANGED <<upload, mergedDocument, textVars, keyLookup, consoleVars,
                 overlapVars>>
  /\ UNCHANGED <<continueOnError, concurrency, pageCount, stage, ocr, roomDetections,
                 groups, processedPages, groupCursor, worker, poolState, pipeline,
                 failOrder, claimLog, mergedPdfPath, outcome, report, inputVars,
                 warned>>

NextServer ==
  \/ UploadRefused
  \/ NoFileUploaded
  \/ StartProcessing
  \/ SendMergedPdf
  \/ CleanupAfterSend
  \/ FailProcessing
  \/ Next

SpecServer == InitServer /\ [][NextServer]_vars

\* ------------------------------------------- normalizeRoomName on its own
\* the characters the arguments are drawn from: a capital, a small letter, a
\* digit, white space and punctuation
NameChars == {"K", "k", "1", " ", "-"}

\* the strings of at most n characters
Texts(n) == UNION {[1..k -> NameChars] : k \in 0..n}

\* the arguments: null and the strings of at most MaxNameLen characters
Names == {Null} \cup Texts(MaxNameLen)

\* no pdfGenerate call is under way
NoRun ==
  /\ continueOnError = FALSE
  /\ concurrency = 1
  /\ pageCount = 0
  /\ mergeOutput = FALSE
  /\ pdfReadable = FALSE
  /\ stage = "NotStarted"
  /\ Fresh

InitNormalize ==
  /\ NoRun
  /\ NoRequest
  /\ nameText \in Names
  /\ nameNormalized = NotCalled
  /\ nameRenormalized = NotCalled
  /\ NoKeyLookup
  /\ NoPdfToPngsCall
  /\ NoOverlap

\* normalizeRoomName(name)
NormalizeName ==
  /\ nameNormalized = NotCalled
  /\ nameNormalized' = normalizeRoomName(nameText)
  /\ UNCHANGED <<nameText, nameRenormalized, runVars, serverVars, keyLookup, consoleVars,
                 overlapVars>>

\* normalizeRoomName called on the result of the first call
RenormalizeName ==
  /\ nameNormalized # NotCalled
  /\ nameRenormalized = NotCalled
  /\ nameRenormalized' = normalizeRoomName(nameNormalized)
  /\ UNCHANGED <<nameText, nameNormalized, runVars, serverVars, keyLookup, consoleVars,
                 overlapVars>>

NextNormalize ==
  \/ NormalizeName
  \/ RenormalizeName

SpecNormalize == InitNormalize /\ [][NextNormalize]_vars

\* ------------------------------------------------- API key resolution
\* the key files a lookup may read: the one options.keyFile names when it is
\* none of the default ones, and the default ones in the working directory
KeyFileNames == {"custom", "gpt-key.txt", "key.txt", "gemini-key.txt"}

\* what fs.readFileSync finds at a path: no file (ENOENT), a file that cannot
\* be read (another error code), or the file's content
NoFile == [error |-> "ENOENT", content |-> <<>>]
Unreadable == [error |-> "EACCES", content |-> <<>>]
FileWith(content) == [error |-> "none", content |-> content]

\* the files a key file can be: absent, unreadable, blank, or holding the key
\* named after the file, followed by white space
KeyFileStates(name) ==
  {NoFile, Unreadable, FileWith(<<" ">>), FileWith(<<name, " ">>)}

\* options.apiKey: absent, empty, or a key
ExplicitKeys == {Null, <<>>, <<"explicit">>}

\* options.keyFile: absent, a file of its own, or one of the default files
KeyFileOptions == {"none", "custom", "key.txt"}

\* the environment variable: unset, empty, white space only, or a key
\* followed by white space
EnvValues == {Null, <<>>, <<" ">>, <<"env", " ">>}

KeyReturned(key) == [kind |-> "returned", key |-> key, error |-> "none"]
KeyThrown(error) == [kind |-> "thrown", key |-> Null, error |-> error]

\* [keyFile, default1, default2].filter(Boolean)
Candidates(keyFile, default1, default2) ==
  (IF keyFile = "none" THEN <<>> ELSE <<keyFile>>) \o <<default1, default2>>

\* the for loop over the candidate files: the first non-blank content,
\* trimmed; a read error other than ENOENT is rethrown; NoKey when the loop
\* ends without a key
RECURSIVE ReadCandidates(_, _)
ReadCandidates(candidates, files) ==
  IF candidates = <<>> THEN NoKey
  ELSE LET file == files[Head(candidates)]
       IN  IF file.error = "ENOENT" THEN ReadCandidates(Tail(candidates), files)
           ELSE IF file.error # "none" THEN KeyThrown(file.error)
           ELSE IF Trim(file.content) # <<>> THEN KeyReturned(Trim(file.content))
           ELSE ReadCandidates(Tail(candidates), files)

\* describe.js: readApiKey(explicitKey, keyFile), with the files and
\* process.env.OPENAI_API_KEY it reads
readApiKey(explicitKey, keyFile, files, env) ==
  IF ~Falsy(explicitKey) THEN KeyReturned(explicitKey)
  ELSE LET fromFile == ReadCandidates(Candidates(keyFile, "gpt-key.txt", "key.txt"),
                                      files)
       IN  IF fromFile # NoKey THEN fromFile
           ELSE IF ~Falsy(env) THEN KeyReturned(env)
           ELSE KeyThrown("OpenAI API key not found")

\* generate-room.js: readGeminiKey(explicitKey, keyFile), with the files and
\* process.env.GEMINI_API_KEY it reads
readGeminiKey(explicitKey, keyFile, files, env) ==
  IF ~Falsy(explicitKey) THEN KeyReturned(explicitKey)
  ELSE LET fromFile == ReadCandidates(Candidates(keyFile, "key.txt", "gemini-key.txt"),
                                      files)
       IN  IF fromFile # NoKey THEN fromFile
           ELSE IF ~Falsy(env) THEN KeyReturned(Trim(env))
           ELSE KeyThrown("Gemini API key not found")

\* a lookup is about to be made: the provider, the arguments, the files on
\* disk and the environment
InitKeys ==
  /\ NoRun
  /\ NoRequest
  /\ NoNameCall
  /\ NoPdfToPngsCall
  /\ NoOverlap
  /\ \E provider \in {"openai", "gemini"}, explicitKey \in ExplicitKeys,
        keyFile \in KeyFileOptions, env \in EnvValues,
        files \in [KeyFileNames -> UNION {KeyFileStates(n) : n \in KeyFileNames}] :
       /\ \A n \in KeyFileNames : files[n] \in KeyFileStates(n)
       /\ provider = "openai" => files["gemini-key.txt"] = NoFile
       /\ provider = "gemini" => files["gpt-key.txt"] = NoFile
       /\ keyFile # "custom" => files["custom"] = NoFile
       /\ keyLookup = [provider |-> provider, explicitKey |-> explicitKey,
                       keyFile |-> keyFile, files |-> files, env |-> env,
                       result |-> NoKey]

\* describeSpaceFromFloorplan: readApiKey(options.apiKey, options.keyFile)
LookUpOpenAIKey ==
  /\ keyLookup.provider = "openai"
  /\ keyLookup.result = NoKey
  /\ keyLookup' = [keyLookup EXCEPT
                     !.result = readApiKey(keyLookup.explicitKey, keyLookup.keyFile,
                                           keyLookup.files, keyLookup.env)]
  /\ UNCHANGED <<runVars, textVars, serverVars, consoleVars, overlapVars>>

\* generateRoomImage: readGeminiKey(options.apiKey, options.keyFile)
LookUpGeminiKey ==
  /\ keyLookup.provider = "gemini"
  /\ keyLookup.result = NoKey
  /\ keyLookup' = [keyLookup EXCEPT
                     !.result = readGeminiKey(keyLookup.explicitKey, keyLookup.keyFile,
                                              keyLookup.files, keyLookup.env)]
  /\ UNCHANGED <<runVars, textVars, serverVars, consoleVars, overlapVars>>

NextKeys ==
  \/ LookUpOpenAIKey
  \/ LookUpGeminiKey

SpecKeys == InitKeys /\ [][NextKeys]_vars

\* ------------------------------------------------------ pdfToPngs console
\* the number of pdfToPngs calls made by the process
MaxCalls == 3

CallIds == 1..MaxCalls

\* the value of originalWarn and originalLog before the call has assigned them
Unsaved == -1

\* the filter function call i installs: it forwards to what call i saved
Wrapper(i) == i

NotCalledYet == [pc |-> "notCalled", originalWarn |-> Unsaved, originalLog |-> Unsaved]

InitConsole ==
  /\ NoRun
  /\ NoRequest
  /\ NoNameCall
  /\ NoKeyLookup
  /\ NoOverlap
  /\ consoleFns = [warn |-> OriginalFn, log |-> OriginalFn]
  /\ pdfToPngsCalls = [i \in CallIds |-> NotCalledYet]

\* pdfToPngs(pdfPath, outputDir, options) runs to its first await: it saves
\* console.warn and console.log, installs its filters, and then throws when
\* pdfPath or outputDir is missing, before the try block is entered;
\* otherwise it enters the try block and suspends at the mkdir of outputDir
PdfToPngsCalled(i) ==
  /\ pdfToPngsCalls[i].pc = "notCalled"
  /\ \E pdfPathGiven \in BOOLEAN, outputDirGiven \in BOOLEAN :
       pdfToPngsCalls' =
         [pdfToPngsCalls EXCEPT
            ![i] = [pc |-> IF ~pdfPathGiven \/ ~outputDirGiven
                           THEN "thrown" ELSE "running",
                    originalWarn |-> consoleFns.warn,
                    originalLog  |-> consoleFns.log]]
  /\ consoleFns' = [warn |-> Wrapper(i), log |-> Wrapper(i)]
  /\ UNCHANGED <<runVars, textVars, serverVars, keyLookup, overlapVars>>

\* finally { console.warn = originalWarn; console.log = originalLog; }
RestoreConsole(i) ==
  consoleFns' = [warn |-> pdfToPngsCalls[i].originalWarn,
                 log  |-> pdfToPngsCalls[i].originalLog]

\* the try block ends with return results
PdfToPngsReturns(i) ==
  /\ pdfToPngsCalls[i].pc = "running"
  /\ RestoreConsole(i)
  /\ pdfToPngsCalls' = [pdfToPngsCalls EXCEPT ![i].pc = "returned"]
  /\ UNCHANGED <<runVars, textVars, serverVars, keyLookup, overlapVars>>

\* an await of the try block rejects, or a statement of it throws
PdfToPngsRejects(i) ==
  /\ pdfToPngsCalls[i].pc = "running"
  /\ RestoreConsole(i)
  /\ pdfToPngsCalls' = [pdfToPngsCalls EXCEPT ![i].pc = "rejected"]
  /\ UNCHANGED <<runVars, textVars, serverVars, keyLookup, overlapVars>>

NextConsole ==
  \/ \E i \in CallIds : PdfToPngsCalled(i)
  \/ \E i \in CallIds : PdfToPngsReturns(i)
  \/ \E i \in CallIds : PdfToPngsRejects(i)

SpecConsole == InitConsole /\ [][NextConsole]_vars

\* ------------------------------------------------- overlapping requests
\* the number of POST /process requests handled at the same time
MaxRequests == 2

RequestIds == 1..MaxRequests

\* a request whose upload was accepted: merge is req.query.merge !== "false";
\* mergedPdfPath is result.mergedPdfPath; sentFrom and deletedFrom are the
\* requests whose pipelines wrote the bytes this handler sent and the file it
\* deleted, 0 for none
Arrived(merge) ==
  [pc |-> "received", merge |-> merge, mergedPdfPath |-> Null,
   sentFrom |-> 0, deletedFrom |-> 0, status |-> 0]

InitOverlap ==
  /\ NoRun
  /\ NoRequest
  /\ NoNameCall
  /\ NoKeyLookup
  /\ NoPdfToPngsCall
  /\ mergedAtDefaultPath = NoMergedFile
  /\ handlers \in [RequestIds -> {Arrived(merge) : merge \in BOOLEAN}]

\* the handler makes its tempDir and calls pdfGenerate with pagesDir and
\* outputDir under it, and without a mergedOutputPath
HandlerCallsPdfGenerate(r) ==
  /\ handlers[r].pc = "received"
  /\ handlers' = [handlers EXCEPT ![r].pc = "processing"]
  /\ UNCHANGED <<runVars, textVars, serverVars, keyLookup, consoleVars,
                 mergedAtDefaultPath>>

\* the run of request r merges: outputMerge writes the PDF at
\* path.resolve(process.cwd(), "merged-output.pdf"), and pdfGenerate resolves
\* with that path
PipelineMerges(r) ==
  /\ handlers[r].pc = "processing"
  /\ handlers[r].merge
  /\ mergedAtDefaultPath' = [exists |-> TRUE, writer |-> r]
  /\ handlers' = [handlers EXCEPT ![r].pc = "returned",
                                  ![r].mergedPdfPath = defaultMergedPath]
  /\ UNCHANGED <<runVars, textVars, serverVars, keyLookup, consoleVars>>

\* pdfGenerate rejects, or resolves with a null mergedPdfPath (merging was
\* disabled or failed): the handler's catch answers 500
PipelineEndsWithoutPdf(r) ==
  /\ handlers[r].pc = "processing"
  /\ handlers' = [handlers EXCEPT ![r].pc = "finished", ![r].status = 500]
  /\ UNCHANGED <<runVars, textVars, serverVars, keyLookup, consoleVars,
                 mergedAtDefaultPath>>

\* after the upload is unlinked: existsSync(result.mergedPdfPath), readFile
\* and res.send, or the throw that the catch answers with 500
HandlerSendsFileAtPath(r) ==
  /\ handlers[r].pc = "returned"
  /\ handlers' =
       IF mergedAtDefaultPath.exists
       THEN [handlers EXCEPT ![r].pc = "sent", ![r].status = 200,
                             ![r].sentFrom = mergedAtDefaultPath.writer]
       ELSE [handlers EXCEPT ![r].pc = "finished", ![r].status = 500]
  /\ UNCHANGED <<runVars, textVars, serverVars, keyLookup, consoleVars,
                 mergedAtDefaultPath>>

\* the setImmediate callback: the file at mergedPdfPath is unlinked when it
\* exists, then the handler's tempDir is removed
HandlerDeletesFileAtPath(r) ==
  /\ handlers[r].pc = "sent"
  /\ handlers' = [handlers EXCEPT
                    ![r].pc = "finished",
                    ![r].deletedFrom = IF mergedAtDefaultPath.exists
                                       THEN mergedAtDefaultPath.writer ELSE 0]
  /\ mergedAtDefaultPath' = NoMergedFile
  /\ UNCHANGED <<runVars, textVars, serverVars, keyLookup, consoleVars>>

NextOverlap ==
  \/ \E r \in RequestIds : HandlerCallsPdfGenerate(r)
  \/ \E r \in RequestIds : PipelineMerges(r)
  \/ \E r \in RequestIds : PipelineEndsWithoutPdf(r)
  \/ \E r \in RequestIds : HandlerSendsFileAtPath(r)
  \/ \E r \in RequestIds : HandlerDeletesFileAtPath(r)

SpecOverlap == InitOverlap /\ [][NextOverlap]_vars

\* ================================================================ claims
\* the indices of the groups' pageIndices, concatenated in group order
RECURSIVE ConcatPageIndices(_, _)
ConcatPageIndices(gs, k) ==
  IF k > Len(gs) THEN <<>> ELSE gs[k].pageIndices \o ConcatPageIndices(gs, k + 1)

\* the positions (from 1) of the groups that hold page index p
GroupsOfPage(p) ==
  {g \in 1..Len(groups) : p \in Range(groups[g].pageIndices)}

SameGroup(p, q) == GroupsOfPage(p) \cap GroupsOfPage(q) # {}

Alone(p) == \A g \in GroupsOfPage(p) : Len(groups[g].pageIndices) = 1

PageIndexSet == 0..(pageCount - 1)

SlotSet(p) == p \in DOMAIN processedPages /\ processedPages[p] # Unset

FailedGroups == {g \in DOMAIN pipeline : pipeline[g] = "failed"}

\* how often group index g was claimed
ClaimsOf(g) == Cardinality({i \in 1..Len(claimLog) : claimLog[i].group = g})

\* ---------------------------------------------------------------- C1
\* C1 as stated: once the pool has settled, resolved or rejected, every index
\* in [0, pageCount) of processedPages holds a PageResult.
C1_SlotsCompleteWhenSettled ==
  poolState \in {"resolved", "rejected"} => \A p \in PageIndexSet : SlotSet(p)

\* C1 amended: once the pool has resolved (continueOnError true or false),
\* every index in [0, pageCount) of processedPages holds one PageResult, that
\* of its own page; a rejected pool may leave indices unset.
C1_SlotsCompleteWhenResolved ==
  poolState = "resolved" =>
    /\ DOMAIN processedPages = PageIndexSet
    /\ \A p \in PageIndexSet :
         /\ SlotSet(p)
         /\ processedPages[p].pageImage = PagePath(p)

C1_Witness ==
  /\ poolState = "resolved"
  /\ pageCount = MaxPages
  /\ \E g \in FailedGroups : Len(groups[g + 1].pageIndices) > 1

\* ---------------------------------------------------------------- C2
\* C2: with continueOnError = false, once a group pipeline has failed the
\* group cursor is never advanced again.
C2_NoClaimAfterFailure ==
  [][(~continueOnError /\ failOrder # <<>>) => groupCursor' = groupCursor]_vars

\* ---------------------------------------------------------------- C3
\* C3: with continueOnError = false, a run aborted in Detecting or Processing
\* still hands the caller a report, in which every page that has a result
\* keeps it.
C3_PartialReportOnAbort ==
  (~continueOnError /\ stage = "Aborted") =>
    /\ outcome.kind = "returned"
    /\ \A p \in DOMAIN processedPages :
         SlotSet(p) => (p \in DOMAIN report /\ report[p] = processedPages[p])

\* ---------------------------------------------------------------- C4
\* C4: no group index is claimed twice, by the same or by another worker, and
\* no two workers hold the same group.
C4_GroupClaimedAtMostOnce ==
  /\ \A i, j \in 1..Len(claimLog) :
       i # j => claimLog[i].group # claimLog[j].group
  /\ \A v, w \in DOMAIN worker :
       (v # w /\ worker[v].group >= 0) => worker[v].group # worker[w].group

C4_Witness ==
  /\ Len(groups) = 3
  /\ Len(claimLog) = 3
  /\ \E i, j \in 1..Len(claimLog) : claimLog[i].worker # claimLog[j].worker

\* ---------------------------------------------------------------- C5
\* C5: with continueOnError = true and at least two workers, when exactly one
\* group has failed, every page of a group whose pipeline succeeded holds the
\* success result of its own group (its render and description, no error),
\* the failing group's pages hold the error, and no other page holds one.
C5_FailureIsolated ==
  (continueOnError /\ workerCount >= 2 /\ Cardinality(FailedGroups) = 1) =>
    \A g \in DOMAIN pipeline :
      \A k \in 1..Len(groups[g + 1].pageIndices) :
        LET slot == processedPages[groups[g + 1].pageIndices[k]]
        IN  /\ pipeline[g] = "ok" =>
                 /\ slot # Unset
                 /\ slot.error = NoError
                 /\ slot.groupId = g + 1
                 /\ slot.renderPath = RenderPath(groups[g + 1].pages)
                 /\ slot.description = <<"description", g + 1>>
            /\ pipeline[g] = "failed" =>
                 /\ slot # Unset
                 /\ slot.error \in {Error("describe", g), Error("title", g)}
            /\ pipeline[g] = "none" => slot = Unset

C5_Witness ==
  /\ continueOnError
  /\ workerCount = 2
  /\ poolState = "resolved"
  /\ Len(groups) = 3
  /\ pipeline[1] = "failed"
  /\ pipeline[0] = "ok"
  /\ pipeline[2] = "ok"

\* ---------------------------------------------------------------- C6
\* C6: with continueOnError = true the pool never rejects and no worker
\* throws; a failed group's error is on each of its pages; and when the pool
\* has resolved every group was claimed exactly once and the cursor is at the
\* end of the groups.
C6_ContinueNeverRejects ==
  continueOnError =>
    /\ poolState # "rejected"
    /\ stage # "Aborted"
    /\ \A w \in DOMAIN worker : worker[w].pc # "thrown"
    /\ \A g \in FailedGroups :
         \A p \in Range(groups[g + 1].pageIndices) :
           /\ SlotSet(p)
           /\ processedPages[p].error \in {Error("describe", g), Error("title", g)}
    /\ poolState = "resolved" =>
         /\ \A g \in 0..(Len(groups) - 1) : ClaimsOf(g) = 1
         /\ groupCursor = Len(groups)

C6_Witness ==
  /\ continueOnError
  /\ poolState = "resolved"
  /\ Len(failOrder) >= 2
  /\ Len(groups) = 3

\* ---------------------------------------------------------------- C7
\* C7: with continueOnError = false, a group pipeline failure rejects the
\* pool; the error pdfGenerate throws is that of the group that failed first,
\* and every page of that group holds a failure result carrying that error.
C7_RejectsWithFirstFailure ==
  (~continueOnError /\ failOrder # <<>>) =>
    /\ poolState = "rejected"
    /\ outcome.kind = "thrown"
    /\ outcome.error \in {Error("describe", failOrder[1]), Error("title", failOrder[1])}
    /\ \A p \in Range(groups[failOrder[1] + 1].pageIndices) :
         /\ SlotSet(p)
         /\ processedPages[p].error = outcome.error
         /\ processedPages[p].renderPath = Null

C7_Witness ==
  /\ ~continueOnError
  /\ poolState = "rejected"
  /\ Len(failOrder) = 2
  /\ Len(groups[failOrder[1] + 1].pageIndices) = 2

\* ---------------------------------------------------------------- C8
\* C8: the groups' pageIndices, concatenated in group order, are 0, 1, ...,
\* N-1, and each group's indices are contiguous and increasing.
C8_GroupsPartitionPages ==
  stage = "Processing" =>
    /\ ConcatPageIndices(groups, 1) = [k \in 1..pageCount |-> k - 1]
    /\ \A g \in 1..Len(groups) :
         /\ Len(groups[g].pageIndices) >= 1
         /\ \A k \in 1..(Len(groups[g].pageIndices) - 1) :
              groups[g].pageIndices[k + 1] = groups[g].pageIndices[k] + 1

C8_Witness ==
  /\ stage = "Processing"
  /\ pageCount = 3
  /\ Len(groups) = 2
  /\ Len(groups[2].pageIndices) = 2

\* ---------------------------------------------------------------- C9
\* C9: pages i and i+1 whose normalized names are non-null and equal are in
\* the same group, and a page whose normalized name is null is alone in its
\* group.
C9_GreedyContiguity ==
  stage = "Processing" =>
    /\ \A i \in 0..(pageCount - 2) :
         (/\ roomDetections[i + 1].normalized # Null
          /\ roomDetections[i + 1].normalized = roomDetections[i + 2].normalized)
           => SameGroup(i, i + 1)
    /\ \A i \in PageIndexSet :
         roomDetections[i + 1].normalized = Null => Alone(i)

\* ---------------------------------------------------------------- C10
\* C10: a page none of whose OCR lines reaches minConfidence gets a null
\* heading from the detector and is alone in its group.
NoConfidentLine(result) ==
  \A l \in Range(result.lines) : l.confidence < minConfidence

C10_LowConfidenceIsSingleton ==
  stage = "Processing" =>
    \A i \in PageIndexSet :
      NoConfidentLine(ocr[i + 1]) =>
        /\ roomDetections[i + 1].rawText = Null
        /\ roomDetections[i + 1].roomName = Null
        /\ Alone(i)

\* ---------------------------------------------------------------- C11
\* C11: every group is a maximal run: the pages of a group of two or more
\* pages all carry the same non-null normalized name, and two adjacent groups
\* never have equal non-null normalized names.
C11_GroupsAreMaximalRuns ==
  stage = "Processing" =>
    /\ \A g \in 1..Len(groups) :
         Len(groups[g].pageIndices) >= 2 =>
           \A p \in Range(groups[g].pageIndices) :
             /\ roomDetections[p + 1].normalized # Null
             /\ roomDetections[p + 1].normalized = groups[g].normalizedName
    /\ \A g \in 1..(Len(groups) - 1) :
         groups[g].normalizedName # Null =>
           groups[g].normalizedName # groups[g + 1].normalizedName

\* ---------------------------------------------------------------- C12
\* what a caller can tell two result arrays apart by: success or failure,
\* groupId, groupedWith and renderPath
Outline(result) ==
  [failed      |-> result.error # NoError,
   groupId     |-> result.groupId,
   groupedWith |-> result.groupedWith,
   renderPath  |-> result.renderPath]

\* the outline of page p's result as the groups and the outcome of its own
\* group's pipeline alone determine it
OutlineOf(p) ==
  LET g == CHOOSE g \in GroupsOfPage(p) : TRUE
  IN  [failed      |-> pipeline[g - 1] = "failed",
       groupId     |-> g,
       groupedWith |-> SelectSeq(groups[g].pages, LAMBDA page : page # PagePath(p)),
       renderPath  |-> IF pipeline[g - 1] = "ok"
                       THEN RenderPath(groups[g].pages) ELSE Null]

\* C12: with continueOnError = true, the result array the pool leaves is a
\* function of the groups and of each group's pipeline outcome: in every run,
\* whatever the number of workers and the order in which the pipelines
\* complete, each index holds the outline those two determine.
C12_ResultIndependentOfSchedule ==
  (continueOnError /\ poolState = "resolved") =>
    \A p \in PageIndexSet :
      /\ SlotSet(p)
      /\ Outline(processedPages[p]) = OutlineOf(p)

\* three groups on two workers, the second group finished before the first
C12_Witness ==
  /\ continueOnError
  /\ poolState = "resolved"
  /\ workerCount = 2
  /\ Len(groups) = 3
  /\ failOrder = <<1, 0>>
  /\ pipeline[2] = "ok"

\* ---------------------------------------------------------------- C13
\* a string of one or more white-space characters
WhitespaceOnly(text) ==
  /\ text # Null
  /\ text # <<>>
  /\ Range(text) \subseteq Whitespace

\* C13: normalizeRoomName returns null for null, for the empty string and
\* for every string of white space only.
C13_BlankNormalizesToNull ==
  (/\ nameNormalized # NotCalled
   /\ \/ nameText = Null
      \/ nameText = <<>>
      \/ WhitespaceOnly(nameText))
    => nameNormalized = Null

\* ---------------------------------------------------------------- C14
\* C14: for every non-null x, normalizeRoomName(normalizeRoomName(x)) is
\* normalizeRoomName(x).
C14_NormalizeIdempotent ==
  (nameText # Null /\ nameRenormalized # NotCalled) =>
    nameRenormalized = nameNormalized

\* ---------------------------------------------------------------- C15
\* the groups claimed whose pipeline has not ended
InProcess ==
  {g \in DOMAIN pipeline : ClaimsOf(g) >= 1 /\ pipeline[g] = "none"}

\* C15: the pool starts exactly min(concurrency, number of groups) workers,
\* each of which claims a group at once, and never are more groups in process
\* than that.  concurrency is the requested value, or the default when the
\* request is absent or not a positive integer.
C15_PoolSizeIsClampedConcurrency ==
  poolState # "idle" =>
    LET n == IF concurrency < Len(groups) THEN concurrency ELSE Len(groups)
    IN  /\ Len(worker) = n
        /\ \A w \in 1..n : \E i \in 1..Len(claimLog) : claimLog[i].worker = w
        /\ Cardinality(InProcess) <= n

\* two workers on three groups, two groups in process
C15_Witness ==
  /\ poolState = "running"
  /\ concurrency = 2
  /\ Len(groups) = 3
  /\ Cardinality(InProcess) = 2

\* ---------------------------------------------------------------- C16
\* C16: when the recognizer fails on page i: with continueOnError = false the
\* run aborts at that page with the recognizer's error (page i is the last one
\* detected, no group is built, no pool is started, nothing is claimed); with
\* continueOnError = true a Detection without name is recorded for the page,
\* the run goes on, and once the groups are built the page is alone in a group
\* that has no name.
C16_OcrFailure ==
  \A i \in 1..Len(ocr) :
    ocr[i] = OcrThrew =>
      /\ ~continueOnError =>
           /\ stage = "Aborted"
           /\ outcome = [kind |-> "thrown", error |-> Error("ocr", i - 1)]
           /\ Len(roomDetections) = i
           /\ groups = <<>>
           /\ poolState = "idle"
           /\ claimLog = <<>>
           /\ processedPages = <<>>
      /\ continueOnError =>
           /\ stage # "Aborted"
           /\ roomDetections[i].roomName = Null
           /\ roomDetections[i].rawText = Null
           /\ roomDetections[i].normalized = Null
           /\ roomDetections[i].confidence = 0
           /\ roomDetections[i].pageImage = PagePath(i - 1)
           /\ stage \notin {"Detecting", "Grouping"} =>
                /\ Cardinality(GroupsOfPage(i - 1)) = 1
                /\ Alone(i - 1)
                /\ \A g \in GroupsOfPage(i - 1) :
                     /\ groups[g].roomName = Null
                     /\ groups[g].normalizedName = Null

\* the recognizer failed on the middle page of three, between two pages of
\* the same room, and the pool has gone through the groups
C16_Witness ==
  /\ continueOnError
  /\ poolState = "resolved"
  /\ pageCount = 3
  /\ ocr[2] = OcrThrew
  /\ roomDetections[1].normalized = roomDetections[3].normalized
  /\ roomDetections[1].normalized # Null

\* ---------------------------------------------------------------- C19
\* the report's per-page results are those the pool produced: every index
\* holds the result its own group's pipeline outcome determines
ReportIsThePoolsResults ==
  /\ report = processedPages
  /\ \A p \in PageIndexSet :
       /\ p \in DOMAIN report
       /\ report[p] # Unset
       /\ Outline(report[p]) = OutlineOf(p)

\* C19: when the merge step has failed, pdfGenerate has resolved with a
\* report whose per-page results are those of the pool and whose merged path
\* is null.
C19_MergeFailureNotFatal ==
  "merge" \in warned =>
    /\ stage = "Done"
    /\ outcome = [kind |-> "returned", error |-> NoError]
    /\ ReportIsThePoolsResults
    /\ mergedPdfPath = Null

\* the merge failed on an empty or absent output directory: every one of two
\* or more groups failed before its render was written
C19_Witness ==
  /\ "merge" \in warned
  /\ outputFiles = {}
  /\ Len(groups) >= 2
  /\ stage = "Done"

\* ---------------------------------------------------------------- C20
\* C20: when the deletion of the intermediate images has failed, pdfGenerate
\* has resolved with a report that carries the path of the merged document,
\* which is on disk, and the per-page results of the pool.
C20_CleanupFailureNotFatal ==
  "cleanup" \in warned =>
    /\ stage = "Done"
    /\ outcome = [kind |-> "returned", error |-> NoError]
    /\ mergedPdfPath = defaultMergedPath
    /\ mergedDocument.exists
    /\ ReportIsThePoolsResults

\* the cleanup failed after the renders were deleted, in a run one of whose
\* groups had failed
C20_Witness ==
  /\ "cleanup" \in warned
  /\ outputFiles = {}
  /\ pageFiles # {}
  /\ FailedGroups # {}
  /\ stage = "Done"

\* ---------------------------------------------------------------- C17
\* the response is out and nothing started for the request is still running
Quiescent ==
  /\ request = "finished"
  /\ stage \in {"NotStarted", "Done", "Aborted", "Failed"}
  /\ \A w \in DOMAIN worker : worker[w].pc \in {"done", "thrown"}

\* C17: once the response of a POST /process request has been sent and all
\* the work started for it has finished, neither the uploaded PDF nor the
\* request's scratch directory exists.
C17_TemporariesRemoved ==
  Quiescent => (~uploadFile /\ ~TempDirExists)

\* ---------------------------------------------------------------- C18
\* the request has an input or validation problem
InputProblem == upload \in {"none", "notPdf", "tooLarge", "corrupt"}

\* C18: /process answers an input or validation problem (no file, not a PDF,
\* too large, unreadable document) with a 4xx status and an error, and every
\* other failure with a 5xx status, the request identifier and the message.
C18_StatusByKindOfFailure ==
  response # NoResponse =>
    /\ InputProblem =>
         /\ response.status \in 400..499
         /\ response.error # "none"
    /\ (~InputProblem /\ response.body # "pdf") =>
         /\ response.status \in 500..599
         /\ response.requestId
         /\ response.message # "none"

\* ---------------------------------------------------------------- C21
\* C21: when a group's pipeline has succeeded, the slot of every page index p
\* of the group holds a result for page p that carries no error, the group's
\* one render path and description and its groupId, and whose groupedWith is
\* the group's pages without page p, in page order.
C21_SuccessFansOutToEveryPage ==
  \A g \in DOMAIN pipeline :
    pipeline[g] = "ok" =>
      \A k \in 1..Len(groups[g + 1].pageIndices) :
        LET group == groups[g + 1]
            p == group.pageIndices[k]
        IN  /\ p \in DOMAIN processedPages
            /\ processedPages[p] # Unset
            /\ processedPages[p].pageImage = PagePath(p)
            /\ processedPages[p].error = NoError
            /\ processedPages[p].errorMessage = Null
            /\ processedPages[p].renderPath = RenderPath(group.pages)
            /\ processedPages[p].description = <<"description", group.groupId>>
            /\ processedPages[p].groupId = group.groupId
            /\ processedPages[p].groupedWith =
                 SelectSeq(group.pages, LAMBDA page : page # PagePath(p))
            /\ Len(processedPages[p].groupedWith) = Len(group.pages) - 1

\* a group of two or more pages has succeeded after another group failed
C21_Witness ==
  /\ failOrder # <<>>
  /\ \E g \in DOMAIN pipeline :
       /\ pipeline[g] = "ok"
       /\ Len(groups[g + 1].pageIndices) >= 2

\* ---------------------------------------------------------------- C22
\* the place of a stage in Rendering, Detecting, Grouping, Processing,
\* Merging, CleaningUp, Done
StageRank(name) ==
  CASE name = "Rendering"  -> 1
    [] name = "Detecting"  -> 2
    [] name = "Grouping"   -> 3
    [] name = "Processing" -> 4
    [] name = "Merging"    -> 5
    [] name = "CleaningUp" -> 6
    [] name = "Done"       -> 7
    [] OTHER               -> 0

\* a change of stage goes forward in that order, or ends the run: Aborted
\* from Detecting or Processing with continueOnError = false, or with the
\* renderer's error from Rendering
StageGoesForward ==
  stage' # stage =>
    \/ /\ StageRank(stage) > 0
       /\ StageRank(stage') > StageRank(stage)
    \/ /\ stage' = "Aborted"
       /\ stage \in {"Detecting", "Processing"}
       /\ ~continueOnError
    \/ /\ stage' = "Failed"
       /\ stage = "Rendering"

\* a group was claimed only after every page had its Detection and the
\* groups were built from them
NoPipelineBeforeGroups ==
  (claimLog # <<>> \/ worker # <<>>) =>
    /\ Len(roomDetections) = pageCount
    /\ \A i \in 1..pageCount : roomDetections[i].pageImage = PagePath(i - 1)
    /\ groups = BuildGroups(roomDetections)
    /\ groups # <<>>
    /\ StageRank(stage) >= 4 \/ stage = "Aborted"

\* the merge is under way or over only when every worker has returned
NoMergeBeforeWorkersEnd ==
  (stage \in {"Merging", "CleaningUp"} \/ "merge" \in warned
     \/ mergedDocument.exists) =>
    /\ worker # <<>>
    /\ \A w \in DOMAIN worker : worker[w].pc = "done"
    /\ \A g \in DOMAIN pipeline : pipeline[g] # "none"

\* C22: the stage of a run only moves forward through Rendering, Detecting,
\* Grouping, Processing, Merging, CleaningUp, Done; no group is claimed before
\* every page has its Detection and the groups are built; the merge starts
\* only after every worker has returned and every pipeline has ended; and a
\* run is Aborted only from Detecting or Processing and only with
\* continueOnError = false.
C22_StagesInOrder ==
  /\ [][StageGoesForward]_vars
  /\ [](NoPipelineBeforeGroups /\ NoMergeBeforeWorkersEnd)
  /\ [](stage = "Aborted" => ~continueOnError)

\* a run that went through every stage: two workers, three groups, merged and
\* cleaned up
C22_Witness ==
  /\ stage = "Done"
  /\ mergedDocument.exists
  /\ pageFiles = {}
  /\ Len(groups) = 3
  /\ Len(worker) = 2

\* ---------------------------------------------------------------- C23
\* the renders of the groups whose pipeline succeeded
RendersOfSucceededGroups ==
  {RenderPath(groups[g + 1].pages) : g \in {h \in DOMAIN pipeline : pipeline[h] = "ok"}}

\* C23: the images of the merged document are the renders of the groups
\* whose pages hold success results: none of another group, and all of
\* these.
C23_MergedOverSuccessfulRenders ==
  mergedDocument.exists => mergedDocument.images = RendersOfSucceededGroups

\* ---------------------------------------------------------------- C24
\* C24 as stated: every response of POST /process is the merged document, or
\* an error object that has error, message and requestId.
C24_PdfOrFullErrorObject ==
  response # NoResponse =>
    \/ response.body = "pdf"
    \/ /\ response.body = "json"
       /\ response.error # "none"
       /\ response.message # "none"
       /\ response.requestId

\* C24 amended: every response of POST /process is the merged document with
\* status 200, sent only after pdfGenerate returned a merged path, or a JSON
\* object with status 400 or 500 that has an error field; the object has
\* message and requestId as well exactly when the upload was accepted and the
\* failure arose in the handler (status 500, "Failed to process PDF"), and
\* has neither when the upload was missing or refused.
C24_PdfOrErrorObject ==
  response # NoResponse =>
    \/ /\ response = PdfResponse
       /\ upload = "pdf"
       /\ outcome.kind = "returned"
       /\ mergedPdfPath # Null
    \/ /\ response.body = "json"
       /\ response.status \in {400, 500}
       /\ response.error # "none"
       /\ IF upload \in {"corrupt", "pdf"}
          THEN /\ response.status = 500
               /\ response.error = "Failed to process PDF"
               /\ response.message # "none"
               /\ response.requestId
          ELSE /\ response.message = "none"
               /\ ~response.requestId

\* a request without a file was answered with an object that has neither
\* message nor requestId
C24_Witness ==
  /\ upload = "none"
  /\ request = "finished"
  /\ response.status = 400
  /\ response.body = "json"
  /\ ~response.requestId

\* ---------------------------------------------------------------- C25
\* the key files of the documented order of the lookup's provider
DocumentedFiles ==
  IF keyLookup.provider = "openai" THEN <<"gpt-key.txt", "key.txt">>
  ELSE <<"key.txt", "gemini-key.txt">>

\* the key a file yields, without surrounding white space; <<>> when it
\* yields none (no file, an unreadable one, a blank one)
KeyOfFile(name) ==
  IF keyLookup.files[name].error = "none"
  THEN Trim(keyLookup.files[name].content) ELSE <<>>

\* the keys the four documented sources yield, in the documented order:
\* options.apiKey, the two files, the environment variable
DocumentedKeys ==
  << IF Falsy(keyLookup.explicitKey) THEN <<>> ELSE Trim(keyLookup.explicitKey),
     KeyOfFile(DocumentedFiles[1]),
     KeyOfFile(DocumentedFiles[2]),
     IF Falsy(keyLookup.env) THEN <<>> ELSE Trim(keyLookup.env) >>

\* the first non-empty one of them, Null when there is none
FirstDocumentedKey ==
  IF \E i \in 1..4 : DocumentedKeys[i] # <<>>
  THEN DocumentedKeys[CHOOSE i \in 1..4 :
                        /\ DocumentedKeys[i] # <<>>
                        /\ \A j \in 1..(i - 1) : DocumentedKeys[j] = <<>>]
  ELSE Null

\* C25: a key lookup returns the key of the first source, in the documented
\* order of its provider, that yields a non-empty key, and throws only when
\* no source yields one.
C25_FirstKeyInDocumentedOrder ==
  keyLookup.result # NoKey =>
    IF FirstDocumentedKey = Null
    THEN keyLookup.result.kind = "thrown"
    ELSE /\ keyLookup.result.kind = "returned"
         /\ Trim(keyLookup.result.key) = FirstDocumentedKey

\* ---------------------------------------------------------------- C26
\* every worker of the pool has returned
EveryWorkerReturned ==
  /\ worker # <<>>
  /\ \A w \in DOMAIN worker : worker[w].pc = "done"

\* worker w is at the head of its loop in this step: it has been started, or
\* has left the try/catch of a group without throwing
AtLoopHead(w) ==
  /\ w \in DOMAIN worker'
  /\ worker'[w].pc \in {"done", "preparing"}
  /\ \/ w \notin DOMAIN worker
     \/ /\ worker[w].pc \in {"preparing", "describing", "titling"}
        /\ pipeline'[worker[w].group] # "none"

\* the cursor worker w reads at the head of its loop: the workers started
\* before it in the same step have each advanced it by one
CursorReadBy(w) ==
  IF worker = <<>> THEN groupCursor + (w - 1) ELSE groupCursor

\* a worker at the head of its loop returns when the cursor it reads is at or
\* beyond the number of groups, and claims the group at the cursor otherwise
StopsExactlyAtEnd ==
  \A w \in WorkerIds :
    AtLoopHead(w) =>
      IF CursorReadBy(w) >= Len(groups)
      THEN worker'[w].pc = "done"
      ELSE /\ worker'[w].pc = "preparing"
           /\ worker'[w].group = CursorReadBy(w)

\* C26: when no external call hangs, a run with continueOnError = true whose
\* rendering succeeded and left pages to process goes on until every worker
\* has returned and pdfGenerate has reached Done; and a worker returns
\* exactly when it finds the cursor at or beyond the number of groups.
C26_RunTerminates ==
  /\ (continueOnError /\ stage = "Detecting") ~>
       (stage = "Done" /\ EveryWorkerReturned /\ outcome.kind = "returned")
  /\ [][StopsExactlyAtEnd]_vars

\* a run with continueOnError = true has reached Done after two workers went
\* through three groups, one of which failed
C26_Witness ==
  /\ continueOnError
  /\ stage = "Done"
  /\ EveryWorkerReturned
  /\ Len(worker) = 2
  /\ Len(groups) = 3
  /\ failOrder # <<>>

\* ---------------------------------------------------------------- C27
\* worker w holds group index g, which it claimed, and ends its pipeline in
\* this step
EndsPipelineOf(w, g) ==
  /\ worker[w].group = g
  /\ \E i \in 1..Len(claimLog) : claimLog[i] = [worker |-> w, group |-> g]
  /\ pipeline[g] = "none"
  /\ pipeline'[g] # "none"

\* a slot that holds a result keeps it, and a slot gets its result in the
\* step in which the worker that claimed the page's group ends that group's
\* pipeline, success or failure according to how it ended
SlotWrittenOnceByItsWorker ==
  \A p \in DOMAIN processedPages :
    /\ p \in DOMAIN processedPages'
    /\ processedPages[p] # Unset => processedPages'[p] = processedPages[p]
    /\ (processedPages[p] = Unset /\ processedPages'[p] # Unset) =>
         \E w \in DOMAIN worker :
           \E g \in DOMAIN pipeline :
             /\ EndsPipelineOf(w, g)
             /\ p \in Range(groups[g + 1].pageIndices)
             /\ (processedPages'[p].error = NoError) = (pipeline'[g] = "ok")

\* C27: every slot of the result array is written at most once in a run, by
\* the worker that claimed the page's group, and is never written again; no
\* page gets a success result and a failure result.
C27_SlotWrittenOnce ==
  [][SlotWrittenOnceByItsWorker]_vars

\* two workers each wrote slots, one a success and one a failure on a group
\* of two pages
C27_Witness ==
  /\ pageCount = 3
  /\ Len(worker) = 2
  /\ \A p \in PageIndexSet : SlotSet(p)
  /\ \E g, h \in DOMAIN pipeline :
       /\ pipeline[g] = "ok"
       /\ pipeline[h] = "failed"
       /\ Len(groups[h + 1].pageIndices) = 2
       /\ \E i, j \in 1..Len(claimLog) :
            /\ claimLog[i].group = g
            /\ claimLog[j].group = h
            /\ claimLog[i].worker # claimLog[j].worker

\* ---------------------------------------------------------------- C28
\* the recognizer calls made so far, each finished and recorded before the
\* next: as many Detections as calls, the i-th for the i-th page to process,
\* none beyond the pages, and all of them once detection is over
OneDetectionPerPageInOrder ==
  /\ Len(roomDetections) = Len(ocr)
  /\ Len(roomDetections) <= pageCount
  /\ \A i \in 1..Len(roomDetections) :
       /\ roomDetections[i].pageImage = PagePath(i - 1)
       /\ ocr[i] # OcrThrew => roomDetections[i].error = NoError
       /\ ocr[i] = OcrThrew => roomDetections[i].error = Error("ocr", i - 1)
  /\ stage \in {"Grouping", "Processing"} => Len(roomDetections) = pageCount
  /\ stage = "Detecting" => Len(roomDetections) < pageCount

\* a step that calls the recognizer is a step of the detection loop, calls it
\* once, for the page after the last one detected, and leaves what was
\* recorded before as it was
OneCallAtATime ==
  (ocr' # ocr \/ roomDetections' # roomDetections) =>
    /\ stage = "Detecting"
    /\ Len(ocr') = Len(ocr) + 1
    /\ Len(roomDetections') = Len(roomDetections) + 1
    /\ SubSeq(ocr', 1, Len(ocr)) = ocr
    /\ SubSeq(roomDetections', 1, Len(roomDetections)) = roomDetections
    /\ roomDetections'[Len(roomDetections')].pageImage = PagePath(Len(roomDetections))

\* C28: heading detection is sequential: each step of the loop makes one
\* recognizer call, for the page after the last page detected, and records
\* its one Detection before the next call is made; once detection is over
\* there is exactly one Detection per page to process, in page order.
C28_DetectionIsSequential ==
  /\ []OneDetectionPerPageInOrder
  /\ [][OneCallAtATime]_vars

\* three pages detected one after the other, the recognizer having failed on
\* the second
C28_Witness ==
  /\ stage = "Processing"
  /\ pageCount = 3
  /\ ocr[1] = OcrKitCaps
  /\ ocr[2] = OcrThrew
  /\ ocr[3] = OcrDashes

\* ---------------------------------------------------------------- C29
\* the Detection of the first page of the group at position g
FirstDetection(g) == roomDetections[groups[g].pageIndices[1] + 1]

\* C29 as stated: a group's label is its first page's raw text, and the
\* cleaned name only when there is no raw text.
C29_LabelPrefersRawText ==
  stage = "Processing" =>
    \A g \in 1..Len(groups) :
      groups[g].roomName =
        IF ~Falsy(FirstDetection(g).rawText) THEN FirstDetection(g).rawText
        ELSE IF ~Falsy(FirstDetection(g).roomName) THEN FirstDetection(g).roomName
        ELSE Null

\* C29 amended: a group's label (roomName) is taken from the Detection of
\* its first page: the cleaned name when that is not empty, the raw text only
\* when the cleaned name is null or empty, and null when both are.
C29_LabelPrefersCleanedName ==
  stage = "Processing" =>
    \A g \in 1..Len(groups) :
      groups[g].roomName =
        IF ~Falsy(FirstDetection(g).roomName) THEN FirstDetection(g).roomName
        ELSE IF ~Falsy(FirstDetection(g).rawText) THEN FirstDetection(g).rawText
        ELSE Null

\* a group of two pages labelled with its first page's cleaned name, which
\* is not its raw text, next to a group labelled with its raw text because
\* the cleaned name is empty
C29_Witness ==
  /\ stage = "Processing"
  /\ \E g, h \in 1..Len(groups) :
       /\ Len(groups[g].pageIndices) = 2
       /\ groups[g].roomName = FirstDetection(g).roomName
       /\ groups[g].roomName # FirstDetection(g).rawText
       /\ FirstDetection(h).roomName = <<>>
       /\ groups[h].roomName = FirstDetection(h).rawText
       /\ groups[h].roomName # <<>>

\* ---------------------------------------------------------------- C30
\* the group has no raw text, no cleaned name and no normalized name
Unnamed(group) ==
  /\ Falsy(roomDetections[group.pageIndices[1] + 1].rawText)
  /\ Falsy(roomDetections[group.pageIndices[1] + 1].roomName)
  /\ Falsy(group.roomName)
  /\ Falsy(group.normalizedName)

\* C30: the title a worker passes to the overlay is never empty, and the
\* overlay never refuses it; for a group without raw text, cleaned name and
\* normalized name it is "Room".  A page without detected heading is alone in
\* one group, and once that group's pipeline has ended without an external
\* call failing, the page has one result, without error.
C30_TitleNeverEmpty ==
  /\ \A w \in DOMAIN worker :
       worker[w].pc = "titling" =>
         LET group == groups[worker[w].group + 1]
             title == titleText(group, roomDetections)
         IN  /\ title # Null
             /\ title # <<>>
             /\ TitleAccepted(title)
             /\ Unnamed(group) => title = <<"R", "o", "o", "m">>
  /\ \A g \in DOMAIN pipeline :
       (Unnamed(groups[g + 1]) /\ pipeline[g] # "none") =>
         /\ Len(groups[g + 1].pageIndices) = 1
         /\ SlotSet(groups[g + 1].pageIndices[1])
         /\ processedPages[groups[g + 1].pageIndices[1]].groupId = g + 1
         /\ pipeline[g] = "ok" <=>
              processedPages[groups[g + 1].pageIndices[1]].error = NoError
         /\ pipeline[g] = "failed" =>
              processedPages[groups[g + 1].pageIndices[1]].error
                \in {Error("describe", g), Error("title", g)}

\* a single page without heading went through the pipeline: one group, titled
\* "Room", one result without error
C30_Witness ==
  /\ pageCount = 1
  /\ poolState = "resolved"
  /\ ocr[1] = OcrBlank
  /\ Len(groups) = 1
  /\ Unnamed(groups[1])
  /\ titleText(groups[1], roomDetections) = <<"R", "o", "o", "m">>
  /\ pipeline[0] = "ok"
  /\ processedPages[0].error = NoError

\* ---------------------------------------------------------------- C33
\* the i-th claim of the run is the claim of group i - 1, and the cursor
\* stands at the number of claims made
ClaimsFollowGroupOrder ==
  /\ \A i \in 1..Len(claimLog) : claimLog[i].group = i - 1
  /\ groupCursor = Len(claimLog)

\* a step never moves the cursor back, and moves it forward by exactly the
\* number of claims it makes
CursorCountsClaims ==
  /\ groupCursor' >= groupCursor
  /\ Len(claimLog') >= Len(claimLog)
  /\ groupCursor' - groupCursor = Len(claimLog') - Len(claimLog)

\* C33: groups are claimed in group definition order for every worker count:
\* the cursor only increases, by one per claim, so that group k + 1 is never
\* claimed before group k.
C33_ClaimedInGroupOrder ==
  []ClaimsFollowGroupOrder /\ [][CursorCountsClaims]_vars

\* two workers have claimed three groups between them, worker 2 having taken
\* the last one, and both have returned
C33_Witness ==
  /\ Len(worker) = 2
  /\ Len(claimLog) = 3
  /\ claimLog[3].worker = 2
  /\ \A w \in DOMAIN worker : worker[w].pc = "done"

\* ---------------------------------------------------------------- C34
\* the slot holds a success PageResult
IsSuccess(slot) == slot # Unset /\ slot.error = NoError

\* C34: when pdfGenerate has returned its report, the renderPath of every
\* success PageResult names a render file that exists in the output
\* directory.
C34_ReportedRendersExist ==
  (stage = "Done" /\ outcome.kind = "returned") =>
    \A p \in DOMAIN report :
      IsSuccess(report[p]) =>
        /\ "outputDir" \in dirs
        /\ report[p].renderPath \in outputFiles

\* ---------------------------------------------------------------- C35
\* the step deletes a page image or a render
DeletesAnImage ==
  \/ \E f \in pageFiles : f \notin pageFiles'
  \/ \E f \in outputFiles : f \notin outputFiles'

\* the merge of this run was asked for and has succeeded
MergeSucceeded ==
  /\ mergeOutput
  /\ "merge" \notin warned
  /\ mergedDocument.exists
  /\ mergedPdfPath = defaultMergedPath

\* C35: a page image or a render is deleted only by the cleanup that follows
\* a merge that succeeded; when merging is disabled or the merge has failed,
\* no step of pdfGenerate deletes a file of pagesDir or outputDir.
C35_DeletedOnlyAfterMerge ==
  [][DeletesAnImage => (stage = "CleaningUp" /\ MergeSucceeded)]_vars

\* the run has returned after a merge of two or more renders, and the
\* cleanup has deleted every page image and every render
C35_Witness ==
  /\ stage = "Done"
  /\ MergeSucceeded
  /\ Cardinality(mergedDocument.images) >= 2
  /\ pageCount >= 2
  /\ pageFiles = {}
  /\ outputFiles = {}

\* ---------------------------------------------------------------- C36
\* the render file of the group with index g (from 0)
RenderOf(g) == RenderPath(groups[g + 1].pages)

\* the render paths of two different groups differ
RenderPathsDistinct ==
  \A g, h \in 0..(Len(groups) - 1) : g # h => RenderOf(g) # RenderOf(h)

\* worker w writes a render in this step
WritesRender(w) ==
  /\ w \in DOMAIN worker
  /\ worker[w].pc = "describing"
  /\ w \in DOMAIN worker'
  /\ worker'[w].pc = "titling"

\* a render is written by the worker that holds its group, is new in
\* outputDir, and is the only file the step adds
RenderWrittenByItsGroupOnly ==
  /\ \A w \in WorkerIds :
       WritesRender(w) =>
         /\ RenderOf(worker[w].group) \notin outputFiles
         /\ outputFiles' = outputFiles \cup {RenderOf(worker[w].group)}
  /\ \A f \in outputFiles' \ outputFiles :
       \E w \in DOMAIN worker : WritesRender(w) /\ f = RenderOf(worker[w].group)

\* C36: two different groups of one run never write the same render file:
\* the render path is derived from the group's first page, with a -group
\* suffix for a group of several pages, and first pages are distinct across
\* groups, so that no worker overwrites the render of another group.
C36_RendersNeverCollide ==
  []RenderPathsDistinct /\ [][RenderWrittenByItsGroupOnly]_vars

\* two workers hold different groups at the same time, one of them a group of
\* two pages, and both renders are in outputDir
C36_Witness ==
  \E w, v \in DOMAIN worker :
    /\ w # v
    /\ worker[w].pc = "titling"
    /\ worker[v].pc = "titling"
    /\ Len(groups[worker[w].group + 1].pages) = 2
    /\ RenderOf(worker[w].group) \in outputFiles
    /\ RenderOf(worker[v].group) \in outputFiles
    /\ RenderOf(worker[w].group) # RenderOf(worker[v].group)

\* ---------------------------------------------------------------- C32
\* a pdfToPngs call is in progress: it was called and has not settled
CallInProgress == \E i \in CallIds : pdfToPngsCalls[i].pc = "running"

\* C32: whenever no pdfToPngs call is in progress, console.log and
\* console.warn are the functions that were installed before the first call.
C32_ConsoleRestoredWhenIdle ==
  ~CallInProgress => consoleFns = [warn |-> OriginalFn, log |-> OriginalFn]

\* ---------------------------------------------------------------- C31
\* the file request r found at its mergedPdfPath, sent and deleted was written
\* by the pipeline run of r, and a request whose run wrote the merged PDF
\* finds it
HandlesOwnMergedPdf(r) ==
  /\ handlers[r].sentFrom \in {0, r}
  /\ handlers[r].deletedFrom \in {0, r}
  /\ handlers[r].status = 500 => handlers[r].mergedPdfPath = Null
  /\ handlers[r].pc = "finished" /\ handlers[r].status = 200 =>
       handlers[r].deletedFrom = r

\* C31: overlapping POST /process requests never share an output artifact:
\* the merged PDF a request checks, reads, sends and then deletes is the one
\* its own pipeline run wrote, under every interleaving of two requests.
C31_RequestsShareNoArtifact ==
  \A r \in DOMAIN handlers : HandlesOwnMergedPdf(r)

====
